---- MODULE Spec2Model ----
(***************************************************************************)
(* A model of mp4iter: the dual-stream reader (src/src/reader.rs), the     *)
(* atom header codec (src/src/atom/atom_header.rs), FourCC                 *)
(* (src/src/fourcc.rs), the stsc query (src/src/atom_types/stsc.rs) and    *)
(* the sample-offset reconstructor (src/src/track/offset.rs).              *)
(*                                                                         *)
(* Streams are sequences of bytes (0..255); the byte at stream offset p    *)
(* is s[p + 1].  A u64 is held as its two's-complement reading (the value  *)
(* of `x as i64`): a value of 2^63 or more appears as x - 2^64, a negative *)
(* number.  Magnitudes of Far or more are not told apart (they all lie     *)
(* beyond every stream of the model) and are held as Far / -Far.           *)
(***************************************************************************)
EXTENDS Integers, Sequences, FiniteSets, TLC

VARIABLES
    file,           \* Mp4Reader.file_reader: the bytes of the file
    len,            \* Mp4Reader.len: the file size
    fpos,           \* position of Mp4Reader.file_reader
    moov_header,    \* Mp4Reader.moov_header
    moov,           \* Mp4Reader.moov_reader: the bytes of the moov payload
    mpos,           \* position of Mp4Reader.moov_reader
    overflow_checks,\* the build: TRUE panics on integer overflow, FALSE wraps
    truth,          \* how the file was built: its atoms, its tables
    track,          \* the Track built last and the iterator taken from it
    pool,           \* the tasks of the parallel iterator over the chunks
    res             \* the last operation, its arguments and its result

vars == <<file, len, fpos, moov_header, moov, mpos, overflow_checks, truth, track, pool, res>>

\* Magnitudes from Far on are held as Far.
Far == 1000000

Min(a, b) == IF a < b THEN a ELSE b
Max(a, b) == IF a > b THEN a ELSE b

RECURSIVE SumSeq(_)
SumSeq(s) == IF s = <<>> THEN 0 ELSE s[1] + SumSeq(Tail(s))

RECURSIVE Flatten(_)
Flatten(ss) == IF ss = <<>> THEN <<>> ELSE ss[1] \o Flatten(Tail(ss))

\* s[from .. to) of a 0-based slice, as Rust's &s[from .. to]
Slice(s, from, to) == SubSeq(s, from + 1, to)

Repeat(x, n) == [i \in 1..n |-> x]

\* F of the value of e, e evaluated once
Let(e, F(_)) == CHOOSE y \in { F(v) : v \in {e} } : TRUE

\* Option
None == [some |-> FALSE, v |-> 0]

Some(v) == [some |-> TRUE, v |-> v]

\* no Track has been built
NoTrack == [some |-> FALSE]

\* no parallel iterator runs
NoPool == [phase |-> "idle"]

(***************************************************************************)
(* Big-endian integers                                                     *)
(***************************************************************************)

\* read_type::<u32>(Endian::Big) at offset p of s (p + 4 <= Len(s)); a value
\* with a first byte other than 0 is 2^24 or more, beyond Far.
U32BE(s, p) ==
    IF s[p + 1] # 0 THEN Far
    ELSE Min(s[p + 2] * 65536 + s[p + 3] * 256 + s[p + 4], Far)

\* The eight bytes b as an unsigned number, magnitudes from Far on as Far.
Mag64(b) ==
    IF \E i \in 1..5 : b[i] # 0 THEN Far
    ELSE Min(b[6] * 65536 + b[7] * 256 + b[8], Far)

\* read_type::<u64>(Endian::Big) at offset p of s, as its `as i64` reading.
U64BE(s, p) ==
    IF s[p + 1] < 128 THEN Mag64(SubSeq(s, p + 1, p + 8))
    ELSE Max(0 - Mag64([i \in 1..8 |-> 255 - s[p + i]]) - 1, 0 - Far)

\* u32::to_be_bytes, for 0 <= v < 2^31
Enc32(v) == << v \div 16777216, (v \div 65536) % 256, (v \div 256) % 256, v % 256 >>

\* u64::to_be_bytes, for 0 <= v < 2^31
Enc64(v) == <<0, 0, 0, 0>> \o Enc32(v)

\* a - b in u64 for a header size b (8 or 16): underflows when 0 <= a < b.
SubUnderflows(a, b) == a >= 0 /\ a < b
WrappingSub(a, b) ==
    IF a >= Far THEN Far
    ELSE IF a - b <= 0 - Far THEN 0 - Far
    ELSE a - b

\* a + b in u64 for a position or offset a >= 0: overflows when the sum
\* passes 2^64
AddOverflows(a, b) == b < 0 /\ a + b >= 0
WrappingAdd(a, b) ==
    IF b >= Far \/ a >= Far THEN Far
    ELSE IF b <= 0 - Far THEN 0 - Far
    ELSE a + b

(***************************************************************************)
(* FourCC (src/src/fourcc.rs).  A FourCC is [tag, s]: tag "enum" with s    *)
(* the variant's to_str, or tag "custom" with s the string's characters.   *)
(***************************************************************************)

Ctts == <<99, 116, 116, 115>>
Dinf == <<100, 105, 110, 102>>
Dref == <<100, 114, 101, 102>>
Edts == <<101, 100, 116, 115>>
Elst == <<101, 108, 115, 116>>
Ftyp == <<102, 116, 121, 112>>
Free == <<102, 114, 101, 101>>
Gmhd == <<103, 109, 104, 100>>
Hdlr == <<104, 100, 108, 114>>
Iods == <<105, 111, 100, 115>>
Mdat == <<109, 100, 97, 116>>
Mdhd == <<109, 100, 104, 100>>
Mdia == <<109, 100, 105, 97>>
Minf == <<109, 105, 110, 102>>
Moov == <<109, 111, 111, 118>>
Mvhd == <<109, 118, 104, 100>>
Smhd == <<115, 109, 104, 100>>
Stbl == <<115, 116, 98, 108>>
Stco == <<115, 116, 99, 111>>
Co64 == <<99, 111, 54, 52>>
Sdtp == <<115, 100, 116, 112>>
Stsc == <<115, 116, 115, 99>>
Stsd == <<115, 116, 115, 100>>
Stss == <<115, 116, 115, 115>>
Stsz == <<115, 116, 115, 122>>
Stts == <<115, 116, 116, 115>>
Tkhd == <<116, 107, 104, 100>>
Tmcd == <<116, 109, 99, 100>>
Trak == <<116, 114, 97, 107>>
Tref == <<116, 114, 101, 102>>
Udta == <<117, 100, 116, 97>>
Vmhd == <<118, 109, 104, 100>>

\* the arms of from_slice
FromSliceArms ==
    { Dinf, Dref, Edts, Elst, Ftyp, Gmhd, Hdlr, Iods, Mdat, Mdhd, Mdia, Minf,
      Moov, Mvhd, Smhd, Sdtp, Stbl, Stco, Stsc, Stsd, Stss, Stsz, Stts, Tkhd,
      Trak, Tref, Udta, Vmhd, Co64, Tmcd }

\* the arms of from_str
FromStrArms ==
    { Ctts, Dinf, Dref, Edts, Elst, Ftyp, Gmhd, Hdlr, Iods, Mdat, Mdhd, Mdia,
      Minf, Moov, Mvhd, Sdtp, Smhd, Stbl, Stco, Stsc, Stsd, Stss, Stsz, Stts,
      Tkhd, Tmcd, Trak, Tref, Udta, Vmhd, Co64 }

FromSlice(b) ==
    IF b \in FromSliceArms THEN [tag |-> "enum", s |-> b]
    ELSE [tag |-> "custom", s |-> b]

FromStr(s) ==
    IF s \in FromStrArms THEN [tag |-> "enum", s |-> s]
    ELSE [tag |-> "custom", s |-> s]

ToStr(f) == f.s

\* FourCC::default(): Custom("Unknown")
DefaultFourCC == [tag |-> "custom", s |-> <<85, 110, 107, 110, 111, 119, 110>>]

\* a u32 as its two 16-bit halves [hi, lo]: the big-endian reading of four bytes
BeU32(b) == [hi |-> b[1] * 256 + b[2], lo |-> b[3] * 256 + b[4]]

\* u32::to_be_bytes of [hi, lo]
ToBeBytes(v) == << v.hi \div 256, v.hi % 256, v.lo \div 256, v.lo % 256 >>

\* FourCC::from_u32
from_u32(value) == FromSlice(ToBeBytes(value))

\* Mp4Reader::fourcc: from_u32 of the big-endian u32 read at p, which from_slice
\* takes apart again with to_be_bytes: the four bytes at p.
ReadFourCC(s, p) == FromSlice(SubSeq(s, p + 1, p + 4))

(***************************************************************************)
(* Atom header (src/src/atom/atom_header.rs, src/src/consts.rs)            *)
(***************************************************************************)

\* the container list with udta added
CONTAINER_with_udta == { Moov, Trak, Tref, Edts, Mdia, Minf, Dinf, Stbl, Udta }

CONTAINER == { Moov, Trak, Tref, Edts, Mdia, Minf, Dinf, Stbl }

DefaultHeader ==
    [atom_size |-> 0, name |-> DefaultFourCC, offset |-> 0, next |-> 0,
     size_64bit |-> FALSE]

is_container(h) == ToStr(h.name) \in CONTAINER

\* a header size that ignores the 64-bit size field
header_size_always_8(h) == 8

header_size(h) == IF h.size_64bit THEN 16 ELSE 8

data_offset(h) == h.offset + header_size(h)

\* AtomHeader::data_size: atom_size - header_size in u64, as the build
\* without overflow checks computes it
data_size(h) == WrappingSub(h.atom_size, header_size(h))

\* offset + atom_size
end(h) == WrappingAdd(h.offset, h.atom_size)

\* AtomHeader::offset_next_rel
offset_next_rel(h) ==
    IF is_container(h) THEN 0 ELSE WrappingSub(h.atom_size, header_size(h))

\* AtomHeader::offset_next_abs
offset_next_abs(h) == WrappingAdd(h.offset, h.atom_size)

\* AtomHeader::contains(pos) for a position 0 <= p < Far: offset <= pos and
\* offset_next_abs > pos between u64
contains(h, p) ==
    h.offset <= p /\ (offset_next_abs(h) < 0 \/ offset_next_abs(h) > p)

(***************************************************************************)
(* Mp4Reader (src/src/reader.rs)                                           *)
(***************************************************************************)

\* Seek::seek(SeekFrom::Current(d)) from position p: the new position, or -1
\* for the error of a negative position.
SeekCurrent(p, d) == IF p + d < 0 THEN 0 - 1 ELSE Min(p + d, Far)

Result(kind, err, hdr, pos) == [kind |-> kind, err |-> err, hdr |-> hdr, pos |-> pos]

\* Mp4Reader::header(target, None) on stream s at position p: read the bytes
\* of the header read (8, or 16 with the 64-bit size).  A read that fails
\* (binrw) leaves the position where that read began.
Header(s, p, chk) ==
    IF p + 4 > Len(s) THEN Result("err", "IO", DefaultHeader, p)
    ELSE IF p + 8 > Len(s) THEN Result("err", "IO", DefaultHeader, p + 4)
    ELSE Let(U32BE(s, p), LAMBDA size32 :
      IF size32 = 1 /\ p + 16 > Len(s)
      THEN Result("err", "IO", DefaultHeader, p + 8)
      ELSE Let(IF size32 = 1 THEN U64BE(s, p + 8) ELSE size32, LAMBDA atom_size :
        LET read == IF size32 = 1 THEN 16 ELSE 8
            h0   == [atom_size |-> atom_size, name |-> ReadFourCC(s, p + 4),
                     offset |-> p, next |-> 0, size_64bit |-> size32 = 1]
        IN  IF atom_size = 0
            THEN Result("err", "ZeroSizeAtom", DefaultHeader, p + read)
            ELSE IF ToStr(h0.name) \in CONTAINER
            THEN Result("ok", "", h0, p + read)
            ELSE IF SubUnderflows(atom_size, header_size(h0)) /\ chk
            THEN Result("panic", "", DefaultHeader, p + read)
            ELSE Result("ok", "",
                        [h0 EXCEPT !.next = WrappingSub(atom_size, header_size(h0))],
                        p + read)))

\* next_header that leaves the stream after the header it read
NextHeader_without_seek(s, p, seek_next, chk) == Header(s, p, chk)

\* Mp4Reader::next_header(target, seek_next)
NextHeader(s, p, seek_next, chk) ==
    Let(Header(s, p, chk), LAMBDA r :
      IF r.kind # "ok" \/ ~seek_next THEN r
      ELSE Let(SeekCurrent(r.pos, r.hdr.next), LAMBDA q :
             IF q < 0 THEN Result("err", "IO", DefaultHeader, r.pos)
             ELSE [r EXCEPT !.pos = q]))

\* The loop of Mp4Reader::find_header on stream s of length n from position p.
\* seen holds the positions the loop has read a header at: the loop is a
\* function of the position, so reading one again means it never ends.
RECURSIVE FindLoop(_, _, _, _, _, _)
FindLoop(s, n, p, fourcc, chk, seen) ==
    IF ~(p < n) THEN Result("none", "", DefaultHeader, p)
    ELSE IF p \in seen THEN Result("diverges", "", DefaultHeader, p)
    ELSE Let(NextHeader(s, p, FALSE, chk), LAMBDA r :
      IF r.kind # "ok" THEN r
      ELSE IF r.hdr.name = fourcc THEN r
      ELSE Let(SeekCurrent(r.pos, r.hdr.next), LAMBDA q :
             IF q < 0 THEN Result("err", "IO", DefaultHeader, r.pos)
             ELSE Let(seen \cup {p}, LAMBDA sn : FindLoop(s, n, q, fourcc, chk, sn))))

\* Mp4Reader::find_header(target, fourcc, false) from position p
find_header(s, n, p, fourcc, chk) ==
    Let(FromStr(fourcc), LAMBDA name : FindLoop(s, n, p, name, chk, {}))

\* The loop of Mp4Reader::header_closest on stream s from position q, bound
\* the loop's bound (the file size), p the position looked for, found the
\* header kept so far (None or Some).
RECURSIVE ClosestLoop(_, _, _, _, _, _, _, _)
ClosestLoop(s, bound, q, p, ignore_container, chk, found, seen) ==
    IF ~(q < bound)
    THEN IF found.some THEN Result("ok", "", found.v, q)
         ELSE Result("err", "EndOfFile", DefaultHeader, q)
    ELSE IF q \in seen THEN Result("diverges", "", DefaultHeader, q)
    ELSE Let(Header(s, q, chk), LAMBDA r :
      IF r.kind # "ok" THEN r
      ELSE IF ignore_container /\ is_container(r.hdr)
      THEN Let(seen \cup {q}, LAMBDA sn :
             ClosestLoop(s, bound, r.pos, p, ignore_container, chk, found, sn))
      ELSE IF r.hdr.offset <= p /\ AddOverflows(r.hdr.offset, r.hdr.atom_size) /\ chk
      THEN Result("panic", "", DefaultHeader, r.pos)
      ELSE IF contains(r.hdr, p)
      THEN IF is_container(r.hdr)
           THEN Let(seen \cup {q}, LAMBDA sn :
                  ClosestLoop(s, bound, r.pos, p, ignore_container, chk,
                              Some(r.hdr), sn))
           ELSE Result("ok", "", r.hdr, r.pos)
      ELSE Let(SeekCurrent(r.pos, offset_next_rel(r.hdr)), LAMBDA q2 :
             IF q2 < 0 THEN Result("err", "IO", DefaultHeader, r.pos)
             ELSE Let(seen \cup {q}, LAMBDA sn :
                    ClosestLoop(s, bound, q2, p, ignore_container, chk, found, sn))))

\* Mp4Reader::header_closest(target, pos, ignore_container) after its reset:
\* the stream s is at 0, and so a position that is not given is 0
header_closest(s, file_len, posopt, ignore_container, chk) ==
    ClosestLoop(s, file_len, 0, IF posopt.some THEN posopt.v ELSE 0,
                ignore_container, chk, None, {})

(***************************************************************************)
(* The facade's enumerations of headers (src/src/mp4.rs)                     *)
(***************************************************************************)

Listed(kind, err, out, pos) == [kind |-> kind, err |-> err, out |-> out, pos |-> pos]

\* The iterator of Mp4 collected from position p of the file stream s:
\* next() is next_header(true).ok(), and the first read that fails ends the
\* iteration.  seen holds the positions a header was read at: next() is a
\* function of the position, so reading at one again means the iteration
\* never ends.
RECURSIVE CollectLoop(_, _, _, _, _)
CollectLoop(s, p, chk, acc, seen) ==
    IF p \in seen THEN Listed("diverges", "", acc, p)
    ELSE Let(NextHeader(s, p, TRUE, chk), LAMBDA r :
      IF r.kind = "panic" THEN Listed("panic", "", acc, r.pos)
      ELSE IF r.kind # "ok" THEN Listed("ok", "", acc, r.pos)
      ELSE Let(<< Append(acc, r.hdr), seen \cup {p} >>, LAMBDA x :
             CollectLoop(s, r.pos, chk, x[1], x[2])))

\* mp4.into_iter().collect() from position p
Collect(s, p, chk) == CollectLoop(s, p, chk, <<>>, {})

\* The loop of Mp4::headers on the file stream s of length n from position
\* p: a header is kept when the stream is before the end of the file after
\* the seek to the next header, and the loop ends when it is not.
RECURSIVE HeadersLoop(_, _, _, _, _, _)
HeadersLoop(s, n, p, chk, hdrs, seen) ==
    IF p \in seen THEN Listed("diverges", "", hdrs, p)
    ELSE Let(NextHeader(s, p, TRUE, chk), LAMBDA r :
      IF r.kind # "ok" THEN Listed(r.kind, r.err, <<>>, r.pos)
      ELSE IF r.pos < n
      THEN Let(<< Append(hdrs, r.hdr), seen \cup {p} >>, LAMBDA x :
             HeadersLoop(s, n, r.pos, chk, x[1], x[2]))
      ELSE Listed("ok", "", hdrs, r.pos))

\* Mp4::headers() from position p
headers(s, n, p, chk) == HeadersLoop(s, n, p, chk, <<>>, {})

\* Mp4::find_user_data(fourcc) on the moov stream s: find_header of udta
\* with reset, then find_atom of fourcc without
find_user_data(s, fourcc, chk) ==
    Let(find_header(s, Len(s), 0, Udta, chk), LAMBDA u :
      IF u.kind = "none" THEN Result("err", "NoSuchAtom", DefaultHeader, u.pos)
      ELSE IF u.kind # "ok" THEN u
      ELSE Let(find_header(s, Len(s), u.pos, fourcc, chk), LAMBDA r :
             IF r.kind = "none" THEN Result("err", "NoSuchAtom", DefaultHeader, r.pos)
             ELSE r))

\* Mp4Reader::with_capacity: find moov in the file from position 0, read its
\* payload into the moov stream, reset the file stream.
with_capacity(f, chk) ==
    Let(find_header(f, Len(f), 0, Moov, chk), LAMBDA r :
      LET ds == r.hdr.atom_size - header_size(r.hdr)
      IN  IF r.kind = "ok" /\ ds >= 0 /\ r.pos + ds <= Len(f)
          THEN [ok |-> TRUE, moov_header |-> r.hdr,
                moov |-> Slice(f, r.pos, r.pos + ds)]
          ELSE [ok |-> FALSE, moov_header |-> DefaultHeader, moov |-> <<>>])

(***************************************************************************)
(* The sample tables (src/src/atom_types) as binrw reads them from stream   *)
(* s at position q: [ok, v, pos], pos the position after the read.  A read  *)
(* past the end of the stream fails.                                        *)
(***************************************************************************)

Decoded(ok, v, pos) == [ok |-> ok, v |-> v, pos |-> pos]

\* a u32 count at q + at, then count entries of width bytes each from q + at + 4
CountedTable(s, q, at, width, Entry(_)) ==
    IF q + at + 4 > Len(s) THEN Decoded(FALSE, "eof", q)
    ELSE Let(U32BE(s, q + at), LAMBDA n :
           IF q + at + 4 + n * width > Len(s) THEN Decoded(FALSE, "eof", q)
           ELSE Decoded(TRUE, [i \in 1..n |-> Entry(q + at + 4 + (i - 1) * width)],
                        q + at + 4 + n * width))

\* Stts: version, flags, count, (sample_count, sample_duration) each
ReadStts(s, q) ==
    CountedTable(s, q, 4, 8,
        LAMBDA e : [sample_count |-> U32BE(s, e), sample_duration |-> U32BE(s, e + 4)])

\* Stsc: version, flags, count, (first_chunk, samples_per_chunk, id) each
ReadStsc(s, q) ==
    Let(CountedTable(s, q, 4, 12,
            LAMBDA e : [first_chunk |-> U32BE(s, e),
                        samples_per_chunk |-> U32BE(s, e + 4),
                        sample_description_id |-> U32BE(s, e + 8)]),
        LAMBDA d : [d EXCEPT !.v = [no_of_entries |-> Len(d.v), sample_to_chunk_table |-> d.v]])

\* Stco: version, flags, count, u32 offsets; Co64::from(Stco) keeps the values
ReadStco(s, q) == CountedTable(s, q, 4, 4, LAMBDA e : U32BE(s, e))

\* Co64: version, flags, count, u64 offsets
ReadCo64(s, q) == CountedTable(s, q, 4, 8, LAMBDA e : U64BE(s, e))

\* Stsz: version, flags, sample_size, count, then the sizes when sample_size
\* is 0, else count times sample_size with nothing read
ReadStsz(s, q) ==
    IF q + 12 > Len(s) THEN Decoded(FALSE, "eof", q)
    ELSE Let(U32BE(s, q + 4), LAMBDA sample_size :
           IF sample_size = 0 THEN CountedTable(s, q, 8, 4, LAMBDA e : U32BE(s, e))
           ELSE Decoded(TRUE, Repeat(sample_size, U32BE(s, q + 8)), q + 12))

\* Stsd: version, flags, count, the descriptions.  The stsd atoms of the
\* model hold no description; one that does is outside the model.
ReadStsd(s, q) ==
    IF q + 8 > Len(s) THEN Decoded(FALSE, "eof", q)
    ELSE IF U32BE(s, q + 4) # 0 THEN Decoded(FALSE, "unmodelled", q)
    ELSE Decoded(TRUE, [version |-> s[q + 1], flags |-> SubSeq(s, q + 2, q + 4),
                        descriptions |-> <<>>], q + 8)

\* Stts::durations
durations(stts) ==
    Flatten([i \in DOMAIN stts |-> Repeat(stts[i].sample_duration, stts[i].sample_count)])

\* the range test with the upper bound taken in
InWindowInclusive(lo, hi, i) == lo <= i /\ i <= hi

\* (lo .. hi).contains(&i)
InWindow(lo, hi, i) == lo <= i /\ i < hi

\* Stsc::no_of_samples(chunk_index), chunk_index counted from 1
no_of_samples(stsc, chunk_index) ==
    LET tb == stsc.sample_to_chunk_table
        hit == { j \in 1..(Len(tb) - 1) :
                   InWindow(tb[j].first_chunk, tb[j + 1].first_chunk, chunk_index) }
    IN  IF stsc.no_of_entries = 1 /\ tb # <<>> THEN Some(tb[1].samples_per_chunk)
        ELSE IF hit # {}
        THEN Some(tb[CHOOSE j \in hit : \A k \in hit : k <= j].samples_per_chunk)
        ELSE IF tb # <<>> /\ chunk_index >= tb[Len(tb)].first_chunk
        THEN Some(tb[Len(tb)].samples_per_chunk)
        ELSE None

(***************************************************************************)
(* SampleOffsets::new (src/src/track/offset.rs)                            *)
(***************************************************************************)

Walk(kind, err, pos, stsd, tabs) ==
    [kind |-> kind, err |-> err, pos |-> pos, stsd |-> stsd, tabs |-> tabs]

\* the match on the atom's name with the arm for trak left out
ArmWithoutTrak(name) ==
    IF name \in { Stsd, Stco, Co64, Stsc, Stsz, Stts } THEN name ELSE <<>>

\* the arm of the match on the atom's name: the name for the arms of the
\* tables and of trak, <<>> for every other name
Arm(name) ==
    IF name \in { Stsd, Stco, Co64, Stsc, Stsz, Stts, Trak } THEN name ELSE <<>>

\* the typed read of the arm
ReadTable(arm, s, q) ==
    CASE arm = Stsd -> ReadStsd(s, q)
      [] arm = Stco -> ReadStco(s, q)
      [] arm = Co64 -> ReadCo64(s, q)
      [] arm = Stsc -> ReadStsc(s, q)
      [] arm = Stsz -> ReadStsz(s, q)
      [] arm = Stts -> ReadStts(s, q)

\* the key the arm inserts under
Key(arm) == IF arm = Co64 THEN Stco ELSE arm

\* The loop of SampleOffsets::new over stream s from position p: stsd the
\* description read so far, tabs the map offset_atoms.
RECURSIVE OffsetsLoop(_, _, _, _, _)
OffsetsLoop(s, p, chk, stsd, tabs) ==
    Let(Header(s, p, chk), LAMBDA r :
      IF r.kind # "ok" THEN Walk(r.kind, r.err, r.pos, stsd, tabs)
      ELSE Let(Arm(ToStr(r.hdr.name)), LAMBDA arm :
        IF arm = Trak THEN Walk("err", "SampleOffsetError", r.pos, stsd, tabs)
        ELSE IF arm = <<>>
        THEN IF r.hdr.next < 0 THEN Walk("err", "TryFromInt", r.pos, stsd, tabs)
             ELSE OffsetsLoop(s, Min(r.pos + r.hdr.next, Far), chk, stsd, tabs)
        ELSE Let(ReadTable(arm, s, r.pos), LAMBDA d :
          IF ~d.ok
          THEN Walk(IF d.v = "unmodelled" THEN "unmodelled" ELSE "err", "IO",
                       d.pos, stsd, tabs)
          ELSE IF d.pos < r.hdr.offset \/ d.pos > end(r.hdr)
          THEN Walk("err", "BoundsError", d.pos, stsd, tabs)
          ELSE IF arm = Stsd THEN OffsetsLoop(s, d.pos, chk, Some(d.v), tabs)
          ELSE Let((Key(arm) :> d.v) @@ tabs, LAMBDA tabs2 :
                 IF Cardinality(DOMAIN tabs2) = 4
                 THEN Walk("ok", "", d.pos, stsd, tabs2)
                 ELSE OffsetsLoop(s, d.pos, chk, stsd, tabs2)))))

\* the sample positions of chunk i (counted from 0) at chunk offset co:
\* none when the stsc query or the slice of the sizes panics
ChunkOffsets(stsc, sizes, i, co) ==
    Let(no_of_samples(stsc, i + 1), LAMBDA n :
      IF ~n.some \/ i + n.v > Len(sizes) THEN None
      ELSE Let(Slice(sizes, i, i + n.v), LAMBDA smp_sizes :
             Some([j \in 1..n.v |-> co + SumSeq(SubSeq(smp_sizes, 1, j - 1))])))

\* SampleOffset::new
SampleOffset(position, size, duration_ticks, time_scale, time_scale_zero_ok) ==
    [position |-> position, size |-> size,
     duration |-> [ticks |-> duration_ticks,
                   time_scale |-> IF time_scale_zero_ok /\ time_scale = 0
                                  THEN 1 ELSE time_scale]]

Built(kind, err, out, pos) == [kind |-> kind, err |-> err, out |-> out, pos |-> pos]

NoOffsets == [stsd |-> None, offsets |-> <<>>]

\* SampleOffsets::new(mp4, time_scale, time_scale_zero_ok, None) on the moov
\* stream s at position p
SampleOffsetsNew(s, p, chk, time_scale, time_scale_zero_ok) ==
    Let(OffsetsLoop(s, p, chk, None, <<>>), LAMBDA w :
      IF w.kind # "ok" THEN Built(w.kind, w.err, NoOffsets, w.pos)
      ELSE IF Stts \notin DOMAIN w.tabs THEN Built("err", "NoSuchAtom stts", NoOffsets, w.pos)
      ELSE IF Stsc \notin DOMAIN w.tabs THEN Built("err", "NoSuchAtom stsc", NoOffsets, w.pos)
      ELSE IF Stsz \notin DOMAIN w.tabs THEN Built("err", "NoSuchAtom stsz", NoOffsets, w.pos)
      ELSE IF Stco \notin DOMAIN w.tabs THEN Built("err", "NoSuchAtom stco", NoOffsets, w.pos)
      ELSE
        Let([i \in 1..Len(w.tabs[Stco]) |->
                ChunkOffsets(w.tabs[Stsc], w.tabs[Stsz], i - 1, w.tabs[Stco][i])],
            LAMBDA chunks :
          IF \E i \in DOMAIN chunks : ~chunks[i].some
          THEN Built("panic", "", NoOffsets, w.pos)
          ELSE
            Let(<< durations(w.tabs[Stts]), w.tabs[Stsz],
                   Flatten([i \in DOMAIN chunks |-> chunks[i].v]) >>,
                LAMBDA z :
              LET n == Min(Len(z[1]), Min(Len(z[2]), Len(z[3])))
                  offsets == [k \in 1..n |->
                                SampleOffset(z[3][k], z[2][k], z[1][k],
                                             time_scale, time_scale_zero_ok)]
              IN  IF ~w.stsd.some
                  THEN Built("err", "NoSuchAtom stsd", NoOffsets, w.pos)
                  ELSE Built("ok", "", [stsd |-> w.stsd, offsets |-> offsets], w.pos))))

(***************************************************************************)
(* The atoms of a track's headers (src/src/atom/atom.rs,                   *)
(* src/src/atom_types/tkhd.rs, mdhd.rs, hdlr.rs).  A string is the         *)
(* sequence of its characters' code points.                                *)
(***************************************************************************)

\* what str::trim takes off both ends, among the characters of ISO 8859-1
WhiteSpace == { 9, 10, 11, 12, 13, 32, 133, 160 }

RECURSIVE TrimStart(_)
TrimStart(str) ==
    IF str # <<>> /\ Head(str) \in WhiteSpace THEN TrimStart(Tail(str)) ELSE str

RECURSIVE TrimEnd(_)
TrimEnd(str) ==
    IF str # <<>> /\ str[Len(str)] \in WhiteSpace
    THEN TrimEnd(SubSeq(str, 1, Len(str) - 1)) ELSE str

\* bytes2iso8859_1: the bytes that are not 0 as characters, trimmed
bytes2iso8859_1(bytes) == TrimEnd(TrimStart(SelectSeq(bytes, LAMBDA n : n # 0)))

\* string_from_bytes: every byte as a character
string_from_bytes(bytes) == bytes

\* Tkhd, 84 bytes from q.  width and height are 16.16 fixed point numbers,
\* kept as their whole and fractional parts.
ReadTkhd(s, q) ==
    IF q + 84 > Len(s) THEN Decoded(FALSE, "eof", q)
    ELSE Decoded(TRUE, [creation_time |-> U32BE(s, q + 4),
                        modification_time |-> U32BE(s, q + 8),
                        track_id |-> U32BE(s, q + 12),
                        duration |-> U32BE(s, q + 20),
                        width |-> << s[q + 77] * 256 + s[q + 78], s[q + 79] * 256 + s[q + 80] >>,
                        height |-> << s[q + 81] * 256 + s[q + 82], s[q + 83] * 256 + s[q + 84] >>],
                 q + 84)

\* Mdhd, 24 bytes from q
ReadMdhd(s, q) ==
    IF q + 24 > Len(s) THEN Decoded(FALSE, "eof", q)
    ELSE Decoded(TRUE, [creation_time |-> U32BE(s, q + 4),
                        modification_time |-> U32BE(s, q + 8),
                        time_scale |-> U32BE(s, q + 12),
                        duration |-> U32BE(s, q + 16)],
                 q + 24)

\* the component name of Atom::hdlr from the rem bytes name_vec that follow
\* the fixed part: a counted string when the first byte is at most rem
ComponentName(name_vec, rem) ==
    IF name_vec = <<>> THEN [kind |-> "err", err |-> "MissingHandlerName", v |-> <<>>]
    ELSE Let(name_vec[1], LAMBDA maybe_count :
           IF maybe_count <= rem
           THEN IF maybe_count + 1 > Len(name_vec)
                THEN [kind |-> "panic", err |-> "", v |-> <<>>]
                ELSE [kind |-> "ok", err |-> "",
                      v |-> bytes2iso8859_1(SubSeq(name_vec, 2, maybe_count + 1))]
           ELSE [kind |-> "ok", err |-> "", v |-> bytes2iso8859_1(name_vec)])

\* Atom::hdlr on the atom of header h with the stream at q: the 24 bytes of
\* the fixed part (the three reserved words are read in the order of the
\* machine and are not kept here), then what is left of the atom as the name
ReadHdlr(s, q, h) ==
    IF q + 24 > Len(s) THEN Decoded(FALSE, "eof", q)
    ELSE IF q + 24 > h.offset + h.atom_size THEN Decoded(FALSE, "panic", q + 24)
    ELSE Let(h.offset + h.atom_size - (q + 24), LAMBDA rem :
           IF q + 24 + rem > Len(s) THEN Decoded(FALSE, "eof", q + 24)
           ELSE Let(ComponentName(SubSeq(s, q + 25, q + 24 + rem), rem), LAMBDA n :
                  IF n.kind # "ok"
                  THEN Decoded(FALSE, IF n.kind = "panic" THEN "panic" ELSE n.err,
                               q + 24 + rem)
                  ELSE Decoded(TRUE,
                               [component_type |-> string_from_bytes(SubSeq(s, q + 5, q + 8)),
                                component_sub_type |-> string_from_bytes(SubSeq(s, q + 9, q + 12)),
                                component_name |-> n.v],
                               q + 24 + rem)))

\* the typed read of the atom named fourcc
ReadTyped(fourcc, s, q, h) ==
    CASE fourcc = Tkhd -> ReadTkhd(s, q)
      [] fourcc = Mdhd -> ReadMdhd(s, q)
      [] fourcc = Hdlr -> ReadHdlr(s, q, h)

\* Mp4::tkhd(false), Mp4::mdhd(false), Mp4::hdlr(false): find_atom on the moov
\* stream s from position p, then the typed read and the check that the
\* stream is still inside the atom
FindTyped(s, p, fourcc, chk) ==
    Let(find_header(s, Len(s), p, fourcc, chk), LAMBDA r :
      IF r.kind = "none" THEN [kind |-> "err", err |-> "NoSuchAtom", v |-> <<>>, pos |-> r.pos]
      ELSE IF r.kind # "ok" THEN [kind |-> r.kind, err |-> r.err, v |-> <<>>, pos |-> r.pos]
      ELSE Let(ReadTyped(fourcc, s, r.pos, r.hdr), LAMBDA d :
             IF ~d.ok
             THEN IF d.v = "panic" THEN [kind |-> "panic", err |-> "", v |-> <<>>, pos |-> d.pos]
                  ELSE [kind |-> "err", err |-> IF d.v = "eof" THEN "IO" ELSE d.v,
                        v |-> <<>>, pos |-> d.pos]
             ELSE IF d.pos < r.hdr.offset \/ d.pos > r.hdr.offset + r.hdr.atom_size
             THEN [kind |-> "err", err |-> "BoundsError", v |-> <<>>, pos |-> d.pos]
             ELSE [kind |-> "ok", err |-> "", v |-> d.v, pos |-> d.pos]))

(***************************************************************************)
(* TrackAttributes::new (src/src/track/attributes.rs) and Track::new       *)
(* (src/src/track/track.rs)                                                *)
(***************************************************************************)

\* TrackIdentifier, the number of an Id as a sequence of one number
Id(n) == [kind |-> "Id", v |-> <<n>>]
Name(str) == [kind |-> "Name", v |-> str]
SubType(str) == [kind |-> "SubType", v |-> str]

Made(kind, err, attributes, fp, mp) ==
    [kind |-> kind, err |-> err, attributes |-> attributes, fpos |-> fp, mpos |-> mp]

NoAttributes == <<>>

\* The loop of TrackAttributes::new with the file stream f at fp and the moov
\* stream s at mp
RECURSIVE AttributesLoop(_, _, _, _, _, _)
AttributesLoop(f, fp, s, mp, identifier, chk) ==
    Let(FindTyped(s, mp, Tkhd, chk), LAMBDA tkhd :
      IF tkhd.kind \in { "panic", "diverges" } THEN Made(tkhd.kind, "", NoAttributes, fp, tkhd.pos)
      ELSE IF tkhd.kind # "ok" THEN Made("err", "NoSuchTrack", NoAttributes, fp, tkhd.pos)
      ELSE Let(FindTyped(s, tkhd.pos, Mdhd, chk), LAMBDA mdhd :
        IF mdhd.kind # "ok" THEN Made(mdhd.kind, mdhd.err, NoAttributes, fp, mdhd.pos)
        ELSE Let(FindTyped(s, mdhd.pos, Hdlr, chk), LAMBDA hdlr :
          IF hdlr.kind # "ok" THEN Made(hdlr.kind, hdlr.err, NoAttributes, fp, hdlr.pos)
          ELSE Let(find_header(f, Len(f), fp, Stbl, chk), LAMBDA stbl :
            IF stbl.kind \notin { "ok", "none" }
            THEN Made(stbl.kind, stbl.err, NoAttributes, stbl.pos, hdlr.pos)
            ELSE IF \/ identifier = Id(tkhd.v.track_id)
                    \/ identifier = Name(hdlr.v.component_name)
                    \/ identifier = SubType(hdlr.v.component_sub_type)
            THEN Let(SampleOffsetsNew(s, hdlr.pos, chk, mdhd.v.time_scale, TRUE), LAMBDA o :
                   IF o.kind # "ok" THEN Made(o.kind, o.err, NoAttributes, stbl.pos, o.pos)
                   ELSE Made("ok", "",
                             [name |-> hdlr.v.component_name,
                              id |-> tkhd.v.track_id,
                              creation_time |-> tkhd.v.creation_time,
                              modification_time |-> tkhd.v.modification_time,
                              sub_type |-> hdlr.v.component_sub_type,
                              time_scale |-> mdhd.v.time_scale,
                              duration |-> mdhd.v.duration,
                              width |-> tkhd.v.width,
                              height |-> tkhd.v.height,
                              offsets |-> o.out],
                             stbl.pos, o.pos))
            ELSE AttributesLoop(f, stbl.pos, s, hdlr.pos, identifier, chk)))))

\* TrackAttributes::new(mp4, identifier, reset)
TrackAttributesNew(f, fp, s, mp, identifier, reset, chk) ==
    IF reset THEN AttributesLoop(f, 0, s, 0, identifier, chk)
    ELSE AttributesLoop(f, fp, s, mp, identifier, chk)

\* Track::new(mp4, identifier, reset): the attributes, then both streams at 0
TrackNew(f, fp, s, mp, identifier, reset, chk) ==
    Let(TrackAttributesNew(f, fp, s, mp, identifier, reset, chk), LAMBDA a :
      IF a.kind # "ok" THEN a ELSE [a EXCEPT !.fpos = 0, !.mpos = 0])

(***************************************************************************)
(* The files of the model.  A piece is the bytes of a run of atoms with    *)
(* the atoms it holds: [off, name, hs, size, inleaf], inleaf for an atom   *)
(* that lies in the payload of a leaf.                                     *)
(***************************************************************************)

Desc(off, name, hs, size) ==
    [off |-> off, name |-> name, hs |-> hs, size |-> size, inleaf |-> FALSE]

Shift(a, d) == [i \in DOMAIN a |-> [a[i] EXCEPT !.off = @ + d]]

Hide(a) == [i \in DOMAIN a |-> [a[i] EXCEPT !.inleaf = TRUE]]

Empty == [b |-> <<>>, a |-> <<>>]

\* a leaf with a 32-bit size
Leaf(name, payload) ==
    [b |-> Enc32(8 + Len(payload)) \o name \o payload,
     a |-> << Desc(0, name, 8, 8 + Len(payload)) >>]

\* a leaf with a 64-bit size
Leaf64(name, payload) ==
    [b |-> Enc32(1) \o name \o Enc64(16 + Len(payload)) \o payload,
     a |-> << Desc(0, name, 16, 16 + Len(payload)) >>]

\* an atom that holds the atoms of piece x, with a 32-bit size
Box(name, piece) ==
    Let(piece, LAMBDA x :
      [b |-> Enc32(8 + Len(x.b)) \o name \o x.b,
       a |-> << Desc(0, name, 8, 8 + Len(x.b)) >> \o
             (IF name \in CONTAINER THEN Shift(x.a, 8) ELSE Hide(Shift(x.a, 8)))])

\* an atom that holds the atoms of piece x, with a 64-bit size
Box64(name, piece) ==
    Let(piece, LAMBDA x :
      [b |-> Enc32(1) \o name \o Enc64(16 + Len(x.b)) \o x.b,
       a |-> << Desc(0, name, 16, 16 + Len(x.b)) >> \o
             (IF name \in CONTAINER THEN Shift(x.a, 16) ELSE Hide(Shift(x.a, 16)))])

Cat(p1, p2) ==
    Let(<<p1, p2>>, LAMBDA x : [b |-> x[1].b \o x[2].b, a |-> x[1].a \o Shift(x[2].a, Len(x[1].b))])

RECURSIVE CatAll(_)
CatAll(xs) == IF xs = <<>> THEN Empty ELSE Cat(xs[1], CatAll(Tail(xs)))

\* header bytes as written, with no claim that they describe an atom
RawBytes(b) == [b |-> b, a |-> <<>>]

Pad8 == <<0, 0, 0, 0, 0, 0, 0, 0>>

\* ftyp | moov{mvhd, trak{mdia{ctts, stts(64-bit size)}}, udta{free}} | mdat
FilePlain ==
    CatAll(<< Leaf(Ftyp, <<>>),
              Box(Moov, CatAll(<< Leaf(Mvhd, Pad8),
                                  Box(Trak, Box(Mdia, Cat(Leaf(Ctts, Pad8), Leaf64(Stts, <<>>)))),
                                  Box(Udta, Leaf(Free, <<>>)) >>)),
              Leaf(Mdat, Pad8) >>)

\* ftyp | moov(64-bit size){mvhd, ctts} | mdat(64-bit size)
FileWide ==
    CatAll(<< Leaf(Ftyp, <<>>),
              Box64(Moov, Cat(Leaf(Mvhd, Pad8), Leaf(Ctts, Pad8))),
              Leaf64(Mdat, <<>>) >>)

\* moov{mvhd, [size 4]free} | free(16) | [64-bit size 2^64 - 16]mdat |
\* [64-bit size 8]free | [size 0]free
FileOdd ==
    CatAll(<< Box(Moov, Cat(Leaf(Mvhd, Pad8), RawBytes(Enc32(4) \o Free))),
              Leaf(Free, Pad8),
              RawBytes(Enc32(1) \o Mdat \o <<255, 255, 255, 255, 255, 255, 255, 240>>),
              RawBytes(Enc32(1) \o Free \o Enc64(8)),
              RawBytes(Enc32(0) \o Free) >>)

\* a file of the model: its bytes, its atoms, whether the bytes are the atoms
\* and nothing else, and the sample tables its tracks were built from
FileOf(piece, wellformed, tracks) ==
    [b |-> piece.b, a |-> piece.a, wellformed |-> wellformed, tracks |-> tracks]

Files ==
    { FileOf(FilePlain, TRUE, <<>>), FileOf(FileWide, TRUE, <<>>),
      FileOf(FileOdd, FALSE, <<>>) }

\* ftyp | moov{mvhd, udta{free}, trak{mdia{stts}}} | mdat
FileUser ==
    CatAll(<< Leaf(Ftyp, <<>>),
              Box(Moov, CatAll(<< Leaf(Mvhd, Pad8),
                                  Box(Udta, Leaf(Free, <<>>)),
                                  Box(Trak, Box(Mdia, Leaf(Stts, Pad8))) >>)),
              Leaf(Mdat, Pad8) >>)

FacadeFiles == Files \cup { FileOf(FileUser, TRUE, <<>>) }

(***************************************************************************)
(* Files with sample tables.  A track is [id, stts, stsc, sample_size,     *)
(* sizes, co, wide, order]: the runs of stts as <<count, duration>>, the   *)
(* entries of stsc as <<first_chunk, samples_per_chunk>>, the sample sizes,*)
(* the chunk offsets (in co64 when wide), and the names of the children of *)
(* stbl in the order they are written.                                     *)
(***************************************************************************)

Canonical == << Stsd, Stts, Stsc, Stsz, Stco >>

Words(ws) == Flatten([i \in DOMAIN ws |-> Enc32(ws[i])])

Pad4 == <<0, 0, 0, 0>>

\* the child of stbl named name as the track trk has it
Child(trk, name) ==
    CASE name = Stsd -> Leaf(Stsd, <<0, 0, 0, trk.id>> \o Enc32(0))
      [] name = Stts ->
           Leaf(Stts, Pad4 \o Enc32(Len(trk.stts)) \o
                      Flatten([i \in DOMAIN trk.stts |-> Words(trk.stts[i])]))
      [] name = Stsc ->
           Leaf(Stsc, Pad4 \o Enc32(Len(trk.stsc)) \o
                      Flatten([i \in DOMAIN trk.stsc |-> Words(trk.stsc[i] \o <<1>>)]))
      [] name = Stsz ->
           Leaf(Stsz, Pad4 \o Enc32(trk.sample_size) \o Enc32(Len(trk.sizes)) \o
                      (IF trk.sample_size = 0 THEN Words(trk.sizes) ELSE <<>>))
      [] name = Stco ->
           IF trk.wide
           THEN Leaf(Co64, Pad4 \o Enc32(Len(trk.co)) \o
                           Flatten([i \in DOMAIN trk.co |-> Enc64(trk.co[i])]))
           ELSE Leaf(Stco, Pad4 \o Enc32(Len(trk.co)) \o Words(trk.co))
      [] OTHER -> Leaf(name, Pad4)

\* trak{mdia{minf{stbl{the children}}}}
TrackPiece(trk) ==
    Box(Trak, Box(Mdia, Box(Minf, Box(Stbl,
        CatAll([i \in DOMAIN trk.order |-> Child(trk, trk.order[i])])))))

\* moov{the tracks} | mdat
TrackFile(tracks) ==
    FileOf(Cat(Box(Moov, CatAll([i \in DOMAIN tracks |-> TrackPiece(tracks[i])])),
               Leaf(Mdat, <<>>)),
           TRUE, tracks)

\* two chunks of two samples each
Base ==
    [id |-> 1, stts |-> << <<3, 10>>, <<1, 20>> >>, stsc |-> << <<1, 2>> >>,
     sample_size |-> 0, sizes |-> <<5, 7, 11, 13>>, co |-> <<100, 200>>,
     wide |-> FALSE, order |-> Canonical]

\* a second track: one chunk of two samples
Second ==
    [id |-> 2, stts |-> << <<2, 5>> >>, stsc |-> << <<1, 2>> >>,
     sample_size |-> 0, sizes |-> <<3, 4>>, co |-> <<50>>,
     wide |-> FALSE, order |-> Canonical]

\* the tracks that differ from Base in their tables
TableVariants ==
    { \* one sample in each of four chunks
      [Base EXCEPT !.stsc = << <<1, 1>> >>, !.co = <<100, 110, 120, 130>>],
      \* a chunk of two samples, then chunks of one
      [Base EXCEPT !.stsc = << <<1, 2>>, <<2, 1>> >>, !.co = <<100, 200, 300>>],
      \* chunks of one sample, then a chunk of two
      [Base EXCEPT !.stsc = << <<1, 1>>, <<3, 2>> >>, !.co = <<100, 200, 300>>],
      \* every sample of the same size
      [Base EXCEPT !.sample_size = 4, !.sizes = <<4, 4, 4, 4>>],
      \* chunk offsets in co64
      [Base EXCEPT !.wide = TRUE],
      \* two chunks without samples, then a chunk of two
      [Base EXCEPT !.stsc = << <<1, 0>>, <<3, 2>> >>, !.co = <<100, 200, 300>>,
                   !.sizes = <<5, 7>>, !.stts = << <<2, 10>> >>],
      \* fewer durations than samples
      [Base EXCEPT !.stts = << <<3, 10>> >>],
      \* more durations than samples
      [Base EXCEPT !.stts = << <<5, 10>> >>],
      \* an stsc table that starts at chunk 2
      [Base EXCEPT !.stsc = << <<2, 1>>, <<3, 1>> >>],
      \* an stsc table without entries
      [Base EXCEPT !.stsc = <<>>],
      \* fewer sizes than the chunks hold samples
      [Base EXCEPT !.sizes = <<5, 7>>, !.stts = << <<2, 10>> >>] }

\* the orders the five children of stbl can be written in
Orders ==
    { o \in [1..5 -> { Stsd, Stts, Stsc, Stsz, Stco }] :
        \A i, j \in 1..5 : i # j => o[i] # o[j] }

TrackFiles ==
    { TrackFile(<< [Base EXCEPT !.order = o] >>) : o \in Orders }
    \cup { TrackFile(<< v >>) : v \in TableVariants }
    \cup { \* a child that is no table among the tables
           TrackFile(<< [Base EXCEPT !.order = << Stsd, Stss, Stts, Stsc, Stsz, Stco >>] >>),
           \* a track without chunk offsets, alone and before another track
           TrackFile(<< [Base EXCEPT !.order = << Stsd, Stts, Stsc, Stsz >>] >>),
           TrackFile(<< [Base EXCEPT !.order = << Stsd, Stts, Stsc, Stsz >>], Second >>),
           \* a track with its description alone before another track
           TrackFile(<< [Base EXCEPT !.order = << Stsd >>], Second >>),
           \* a track without description before another track
           TrackFile(<< [Base EXCEPT !.order = << Stts, Stsc, Stsz, Stco >>], Second >>),
           \* two whole tracks
           TrackFile(<< Base, Second >>) }

(***************************************************************************)
(* Files with whole tracks.  A movie track is a track with the fields of   *)
(* its headers: the name as it is written in hdlr (written) and as it      *)
(* reads (name), the subtype, the times and the time scale.                *)
(***************************************************************************)

Zeros(n) == Repeat(0, n)

Mhlr == <<109, 104, 108, 114>>
Vide == <<118, 105, 100, 101>>
Soun == <<115, 111, 117, 110>>
Meta == <<109, 101, 116, 97>>
\* "MET"
Met == <<77, 69, 84>>

TkhdPayload(trk) ==
    Pad4 \o Enc32(trk.created) \o Enc32(trk.modified) \o Enc32(trk.id) \o Pad4 \o
    Enc32(trk.ticks) \o Zeros(52) \o Enc32(trk.width * 65536) \o Enc32(trk.height * 65536)

MdhdPayload(trk) ==
    Pad4 \o Enc32(trk.created) \o Enc32(trk.modified) \o Enc32(trk.time_scale) \o
    Enc32(trk.ticks) \o Pad4

HdlrPayload(trk) ==
    Pad4 \o Mhlr \o trk.sub_type \o Zeros(12) \o trk.written

\* trak{tkhd, mdia{mdhd, hdlr, minf{stbl{the children}}}}
MovieTrackPiece(trk) ==
    Box(Trak, Cat(Leaf(Tkhd, TkhdPayload(trk)),
        Box(Mdia, CatAll(<< Leaf(Mdhd, MdhdPayload(trk)),
                            Leaf(Hdlr, HdlrPayload(trk)),
                            Box(Minf, Box(Stbl,
                                CatAll([i \in DOMAIN trk.order |-> Child(trk, trk.order[i])]))) >>))))

\* the payload of mdat: bytes that tell their place
MdatPayload == [i \in 1..40 |-> 200 + i]

\* ftyp | moov{mvhd, the tracks, udta{free}} | mdat
MovieFile(tracks) ==
    FileOf(CatAll(<< Leaf(Ftyp, Pad8),
                     Box(Moov, CatAll(<< Leaf(Mvhd, Pad8),
                                         CatAll([i \in DOMAIN tracks |-> MovieTrackPiece(tracks[i])]),
                                         Box(Udta, Leaf(Free, <<>>)) >>)),
                     Leaf(Mdat, MdatPayload) >>),
           TRUE, tracks)

Heads(trk, id, name, written, sub_type, time_scale) ==
    [id |-> id, name |-> name, written |-> written, sub_type |-> sub_type,
     time_scale |-> time_scale, created |-> 100 + id, modified |-> 200 + id,
     ticks |-> 50, width |-> IF sub_type = Vide THEN 16 ELSE 0,
     height |-> IF sub_type = Vide THEN 9 ELSE 0] @@ trk

\* one chunk of four samples at the start of the file
OneChunk == [Base EXCEPT !.stsc = << <<1, 4>> >>, !.co = <<0>>]

\* four chunks of one sample, the later chunks earlier in the file; the
\* last sample ends at the end of the file
Backwards(n) ==
    [Base EXCEPT !.stsc = << <<1, 1>> >>, !.co = << n - 13, 64, 32, 8 >>,
                 !.sizes = <<13, 11, 7, 5>>]

\* chunks of one sample: the second ends after the end of the file, the
\* third begins after it
Outside(n) ==
    [Base EXCEPT !.stsc = << <<1, 1>> >>, !.co = << 16, n - 4, n + 8, 24 >>]

\* a sound track named "vide" with a counted name
Sound(trk) == Heads(trk, 1, Vide, <<4>> \o Vide, Soun, 10)
\* a video track named "MET", the name written as a counted string that
\* ends with a space
Video(trk) == Heads(trk, 2, Met, <<4>> \o Met \o <<32>>, Vide, 0)
\* a second video track named "meta", the name written with a 0 after it
Video2(trk) == Heads(trk, 3, Meta, Meta \o <<0>>, Vide, 4)

\* the size of the file of the given tracks
SizeOf(tracks) == Len(MovieFile(tracks).b)

MovieTracks ==
    { << Sound(OneChunk), Video(Second), Video2(OneChunk) >>,
      << Video(OneChunk), Sound(Base) >>,
      << Video2(Base) >>,
      << Sound(Backwards(SizeOf(<< Sound(Backwards(0)) >>))) >>,
      << Video(Second), Video2(Outside(SizeOf(<< Video(Second), Video2(Outside(0)) >>))) >> }

MovieFiles == { MovieFile(t) : t \in MovieTracks }

(***************************************************************************)
(* The reader's operations as actions                                      *)
(***************************************************************************)

Targets == { "File", "Moov" }

stream(t) == IF t = "File" THEN file ELSE moov

\* Mp4Reader::pos
pos(t) == IF t = "File" THEN fpos ELSE mpos

\* Mp4Reader::len
length(t) == IF t = "File" THEN len ELSE Len(moov)

\* the positions the model seeks to: every header of the files starts on one
SeekPositions(t) == { p \in 0..length(t) : p % 8 = 0 }

Alive == res.kind # "panic" /\ res.kind # "diverges"

\* what an operation leaves: the target's position, the other stream's as given
Leave(t, p, other) ==
    /\ fpos' = IF t = "File" THEN p ELSE other
    /\ mpos' = IF t = "Moov" THEN p ELSE other
    /\ UNCHANGED <<file, len, moov_header, moov, overflow_checks, truth, track, pool>>

InitWith(F) ==
    /\ overflow_checks \in BOOLEAN
    /\ \E x \in F :
         \E c \in { with_capacity(x.b, overflow_checks) } :
             /\ c.ok
             /\ file = x.b
             /\ len = Len(x.b)
             /\ moov_header = c.moov_header
             /\ moov = c.moov
             /\ truth = [atoms |-> x.a, wellformed |-> x.wellformed, tracks |-> x.tracks]
    /\ fpos = 0
    /\ mpos = 0
    /\ track = NoTrack
    /\ pool = NoPool
    /\ res = [op |-> "new", kind |-> "ok"]

Init == InitWith(Files)

\* Mp4Reader::seek(target, SeekFrom::Start(p))
Seek(t, p) ==
    /\ Alive
    /\ res' = [op |-> "seek", kind |-> "ok", target |-> t]
    /\ Leave(t, p, IF t = "File" THEN mpos ELSE fpos)

\* Mp4Reader::next_header(target, seek_next)
DoNextHeader(t, seek_next) ==
    /\ Alive
    /\ \E r \in { NextHeader(stream(t), pos(t), seek_next, overflow_checks) } :
           /\ res' = [op |-> "next_header", kind |-> r.kind, err |-> r.err,
                      hdr |-> r.hdr, target |-> t, seek_next |-> seek_next,
                      start |-> pos(t), post |-> r.pos]
           /\ Leave(t, r.pos, IF t = "File" THEN mpos ELSE fpos)

SearchNames == { Moov, Ctts, Stts, Free, Mdat }

\* Mp4Reader::find_header(target, fourcc, reset)
DoFindHeader(t, fourcc, reset) ==
    /\ Alive
    /\ \E start \in { IF reset THEN 0 ELSE pos(t) } :
       \E r \in { find_header(stream(t), length(t), start, fourcc, overflow_checks) } :
           /\ res' = [op |-> "find_header", kind |-> r.kind, err |-> r.err,
                      hdr |-> r.hdr, target |-> t, fourcc |-> fourcc,
                      reset |-> reset, start |-> start,
                      post |-> r.pos]
           /\ Leave(t, r.pos,
                    IF reset THEN 0 ELSE IF t = "File" THEN mpos ELSE fpos)

\* Mp4Reader::find_atom(target, fourcc, reset): the atom of the header found,
\* the stream at its payload, or NoSuchAtom
DoFindAtom(t, fourcc, reset) ==
    /\ Alive
    /\ \E start \in { IF reset THEN 0 ELSE pos(t) } :
       \E r \in { find_header(stream(t), length(t), start, fourcc, overflow_checks) } :
           /\ res' = [op |-> "find_atom",
                      kind |-> IF r.kind = "none" THEN "err" ELSE r.kind,
                      err |-> IF r.kind = "none" THEN "NoSuchAtom" ELSE r.err,
                      hdr |-> r.hdr, target |-> t, fourcc |-> fourcc,
                      reset |-> reset, start |-> start, post |-> r.pos]
           /\ Leave(t, r.pos,
                    IF reset THEN 0 ELSE IF t = "File" THEN mpos ELSE fpos)

\* the positions looked up: no position, or a position of the target stream,
\* the first byte of a header or a byte inside one
Lookups(t) ==
    { None } \cup { Some(p) : p \in { q \in 0..(length(t) - 1) : q % 4 = 0 } }

\* Mp4Reader::header_closest(target, pos, ignore_container)
DoHeaderClosest(t, posopt, ignore_container) ==
    /\ Alive
    /\ \E r \in { header_closest(stream(t), len, posopt, ignore_container, overflow_checks) } :
           /\ res' = [op |-> "header_closest", kind |-> r.kind, err |-> r.err,
                      hdr |-> r.hdr, target |-> t, given |-> posopt,
                      ignore_container |-> ignore_container,
                      start |-> pos(t), post |-> r.pos]
           /\ Leave(t, r.pos, 0)

NextClosest ==
    \/ \E t \in Targets : \E p \in SeekPositions(t) : Seek(t, p)
    \/ \E t \in Targets : \E po \in Lookups(t) : \E b \in BOOLEAN : DoHeaderClosest(t, po, b)

SpecClosest == Init /\ [][NextClosest]_vars

\* AtomHeader::start
header_start(h) == h.offset

\* Mp4Reader::bounds(target, Some((min, max))) at position p
bounds(p, min, max) == ~(p < min \/ p > max)

\* Mp4Reader::sync_seek(seek_to_abs): the file stream seeks first and stays
\* there when bounds_moov fails
DoSyncSeek(seek_to_abs) ==
    /\ Alive
    /\ \E ok \in { bounds(seek_to_abs, header_start(moov_header), end(moov_header)) } :
           /\ res' = [op |-> "sync_seek", kind |-> IF ok THEN "ok" ELSE "err",
                      err |-> IF ok THEN "" ELSE "BoundsError",
                      target |-> "File", at |-> seek_to_abs, moov_start |-> mpos]
           /\ fpos' = seek_to_abs
           /\ mpos' = IF ok THEN seek_to_abs - moov_header.offset ELSE mpos
    /\ UNCHANGED <<file, len, moov_header, moov, overflow_checks, truth, track, pool>>

\* Mp4Reader::in_moov_range at file position p
in_moov_range(p) == p >= moov_header.offset

\* Mp4Reader::sync_pos(target): the other stream is brought to the target's
\* position
DoSyncPos(t) ==
    /\ Alive
    /\ \E ok \in { t = "Moov" \/ in_moov_range(fpos) } :
           /\ res' = [op |-> "sync_pos", kind |-> IF ok THEN "ok" ELSE "err",
                      err |-> IF ok THEN "" ELSE "BoundsError",
                      target |-> t, at |-> pos(t), moov_start |-> mpos]
           /\ fpos' = IF t = "Moov" THEN mpos + moov_header.offset ELSE fpos
           /\ mpos' = IF t = "File" /\ ok THEN fpos - moov_header.offset ELSE mpos
    /\ UNCHANGED <<file, len, moov_header, moov, overflow_checks, truth, track, pool>>

\* how far past a stream's end the model seeks
Beyond == 24

\* positions up to Beyond bytes past the end of the target stream
SyncPositions(t) == { p \in 0..(length(t) + Beyond) : p % 8 = 0 }

NextSync ==
    \/ \E t \in Targets : \E p \in SyncPositions(t) : Seek(t, p)
    \/ \E p \in SyncPositions("File") : DoSyncSeek(p)
    \/ \E t \in Targets : DoSyncPos(t)

SpecSync == Init /\ [][NextSync]_vars

\* mp4.into_iter().collect()
DoCollect ==
    /\ Alive
    /\ \E r \in { Collect(file, fpos, overflow_checks) } :
           /\ res' = [op |-> "collect", kind |-> r.kind, err |-> r.err,
                      out |-> r.out, target |-> "File", start |-> fpos, post |-> r.pos]
           /\ Leave("File", r.pos, mpos)

\* Mp4::headers()
DoHeaders ==
    /\ Alive
    /\ \E r \in { headers(file, len, fpos, overflow_checks) } :
           /\ res' = [op |-> "headers", kind |-> r.kind, err |-> r.err,
                      out |-> r.out, target |-> "File", start |-> fpos, post |-> r.pos]
           /\ Leave("File", r.pos, mpos)

UserDataNames == { Free, Mvhd, Stts, Mdat }

\* Mp4::find_user_data(fourcc)
DoFindUserData(fourcc) ==
    /\ Alive
    /\ \E r \in { find_user_data(moov, fourcc, overflow_checks) } :
           /\ res' = [op |-> "find_user_data", kind |-> r.kind, err |-> r.err,
                      hdr |-> r.hdr, target |-> "Moov", fourcc |-> fourcc,
                      start |-> 0, post |-> r.pos]
           /\ Leave("Moov", r.pos, 0)

InitFacade == InitWith(FacadeFiles)

NextFacade ==
    \/ \E t \in Targets : \E p \in SeekPositions(t) : Seek(t, p)
    \/ DoCollect
    \/ DoHeaders
    \/ \E n \in UserDataNames : DoFindUserData(n)
    \/ \E t \in Targets : \E n \in SearchNames : \E b \in BOOLEAN : DoFindHeader(t, n, b)

SpecFacade == InitFacade /\ [][NextFacade]_vars

(***************************************************************************)
(* Track, Sample (src/src/track/track.rs, src/src/track/sample.rs)         *)
(***************************************************************************)

\* the first n decimal digits of r / d after the point, for r < d
RECURSIVE Fraction(_, _, _)
Fraction(r, d, n) ==
    IF n = 0 THEN 0
    ELSE ((r * 10) \div d) * (10 ^ (n - 1)) + Fraction((r * 10) % d, d, n - 1)

\* Duration::seconds_f64(duration_ticks as f64 / time_scale as f64) as
\* SampleOffset::new calls it, a time::Duration of whole seconds and
\* nanoseconds.  The quotients of the model are exact in f64.
seconds_f64(d) ==
    [seconds |-> d.ticks \div d.time_scale,
     nanoseconds |-> Fraction(d.ticks % d.time_scale, d.time_scale, 9)]

\* Duration::ZERO
ZERO == [seconds |-> 0, nanoseconds |-> 0]

\* Duration += Duration with the carry of the nanoseconds left out
AddDuration_without_carry(a, b) ==
    [seconds |-> a.seconds + b.seconds,
     nanoseconds |-> (a.nanoseconds + b.nanoseconds) % 1000000000]

\* Duration += Duration
AddDuration(a, b) ==
    [seconds |-> a.seconds + b.seconds + (a.nanoseconds + b.nanoseconds) \div 1000000000,
     nanoseconds |-> (a.nanoseconds + b.nanoseconds) % 1000000000]

\* Sample::new with the difference of the positions taken from the start
\* of the file
SampleNew_seek_from_start(f, n, fp, sample_offset) ==
    IF sample_offset.position < 0
    THEN [kind |-> "err", err |-> "TryFromInt", bytes |-> <<>>, pos |-> fp]
    ELSE Let(sample_offset.position - fp, LAMBDA q :
           IF q < 0 THEN [kind |-> "err", err |-> "IO", bytes |-> <<>>, pos |-> fp]
           ELSE IF q + sample_offset.size > n
           THEN [kind |-> "err", err |-> "IO", bytes |-> <<>>, pos |-> Max(q, n)]
           ELSE [kind |-> "ok", err |-> "",
                 bytes |-> SubSeq(f, q + 1, q + sample_offset.size),
                 pos |-> q + sample_offset.size])

\* Sample::new(reader, sample_offset) with the file stream f of length n at
\* fp: a seek relative to fp, then read_exact of size bytes, which leaves a
\* stream it fails on at the end of the file or where it was
SampleNew(f, n, fp, sample_offset) ==
    IF sample_offset.position < 0
    THEN [kind |-> "err", err |-> "TryFromInt", bytes |-> <<>>, pos |-> fp]
    ELSE Let(SeekCurrent(fp, sample_offset.position - fp), LAMBDA q :
           IF q < 0 THEN [kind |-> "err", err |-> "IO", bytes |-> <<>>, pos |-> fp]
           ELSE IF q + sample_offset.size > n
           THEN [kind |-> "err", err |-> "IO", bytes |-> <<>>, pos |-> Max(q, n)]
           ELSE [kind |-> "ok", err |-> "",
                 bytes |-> SubSeq(f, q + 1, q + sample_offset.size),
                 pos |-> q + sample_offset.size])

\* the identifiers tracks are asked for by
Identifiers ==
    { Id(2), Name(Vide), Name(Met), Name(Meta), SubType(Vide), SubType(Met) }

\* where the trak atoms begin in the moov stream, and the stream's start
TrakStarts ==
    { 0 } \cup { a.off - (moov_header.offset + header_size(moov_header)) :
                   a \in { truth.atoms[i] : i \in { j \in DOMAIN truth.atoms :
                                                     truth.atoms[j].name = Trak } } }

\* the Track is dropped and the moov stream sought to p
DropAndSeek(p) ==
    /\ Alive
    /\ track' = NoTrack
    /\ res' = [op |-> "seek", kind |-> "ok", target |-> "Moov"]
    /\ fpos' = fpos
    /\ mpos' = p
    /\ UNCHANGED <<file, len, moov_header, moov, overflow_checks, truth, pool>>

\* Track::new(mp4, identifier, reset).  A Track borrows the Mp4 until it is
\* dropped, so none is built while one lives.
DoTrackNew(identifier, reset) ==
    /\ Alive
    /\ ~track.some
    /\ \E r \in { TrackNew(file, fpos, moov, mpos, identifier, reset, overflow_checks) } :
         /\ res' = [op |-> "track_new", kind |-> r.kind, err |-> r.err,
                    identifier |-> identifier, reset |-> reset,
                    start |-> IF reset THEN 0 ELSE mpos,
                    file_start |-> IF reset THEN 0 ELSE fpos,
                    attributes |-> r.attributes]
         /\ track' = IF r.kind = "ok"
                     THEN [some |-> TRUE, attributes |-> r.attributes,
                           iter |-> "none", k |-> 0, t |-> ZERO]
                     ELSE NoTrack
         /\ fpos' = r.fpos
         /\ mpos' = r.mpos
    /\ UNCHANGED <<file, len, moov_header, moov, overflow_checks, truth, pool>>

\* Track::samples() or Track::timestamps(): a new iterator over the offsets
DoIterate(iter) ==
    /\ Alive
    /\ track.some
    /\ track' = [track EXCEPT !.iter = iter, !.k = 0, !.t = ZERO]
    /\ res' = [op |-> iter, kind |-> "ok"]
    /\ UNCHANGED <<file, len, fpos, moov_header, moov, mpos, overflow_checks, truth, pool>>

\* next() on the iterator: the closures of Track::samples or of
\* Track::timestamps on the entry k of the offsets
DoIterNext ==
    /\ Alive
    /\ track.some
    /\ track.iter # "none"
    /\ IF track.k >= Len(track.attributes.offsets.offsets)
       THEN /\ res' = [op |-> "next", iter |-> track.iter, kind |-> "end", k |-> track.k]
            /\ UNCHANGED <<fpos, track>>
       ELSE \E offset \in { track.attributes.offsets.offsets[track.k + 1] } :
            \E duration \in { seconds_f64(offset.duration) } :
              /\ track' = [track EXCEPT !.k = @ + 1, !.t = AddDuration(@, duration)]
              /\ IF track.iter = "timestamps"
                 THEN /\ res' = [op |-> "next", iter |-> track.iter, kind |-> "ok",
                                 k |-> track.k, relative_time |-> track.t,
                                 sample_duration |-> duration]
                      /\ fpos' = fpos
                 ELSE \E r \in { SampleNew(file, len, fpos, offset) } :
                      /\ res' = [op |-> "next", iter |-> track.iter, kind |-> r.kind,
                                 err |-> r.err, k |-> track.k, relative_time |-> track.t,
                                 sample_duration |-> duration, bytes |-> r.bytes,
                                 before |-> fpos]
                      /\ fpos' = r.pos
    /\ UNCHANGED <<file, len, moov_header, moov, mpos, overflow_checks, truth, pool>>

InitTrack == InitWith(MovieFiles)

NextTrack ==
    \/ \E p \in TrakStarts : DropAndSeek(p)
    \/ \E i \in Identifiers : \E reset \in BOOLEAN : DoTrackNew(i, reset)
    \/ \E iter \in { "samples", "timestamps" } : DoIterate(iter)
    \/ DoIterNext

SpecTrack == InitTrack /\ [][NextTrack]_vars

TimeScales == { 0, 10 }

\* the positions inside a track from which its tables are looked for: after
\* the header of trak and after the header of stbl
Starts ==
    { a.off + a.hs - (moov_header.offset + header_size(moov_header)) :
        a \in { truth.atoms[i] : i \in { j \in DOMAIN truth.atoms :
                                          truth.atoms[j].name \in { Trak, Stbl } } } }

\* SampleOffsets::new(mp4, time_scale, true, moov_position)
DoSampleOffsets(moov_position, time_scale) ==
    /\ Alive
    /\ \E start \in { IF moov_position.some THEN moov_position.v ELSE mpos } :
       \E r \in { SampleOffsetsNew(moov, start, overflow_checks, time_scale, TRUE) } :
           /\ res' = [op |-> "sample_offsets", kind |-> r.kind, err |-> r.err,
                      out |-> r.out, start |-> start, time_scale |-> time_scale,
                      post |-> r.pos]
           /\ Leave("Moov", r.pos, fpos)

InitOffsets == InitWith(TrackFiles)

NextOffsets ==
    \E mp \in { None } \cup { Some(p) : p \in Starts } : \E ts \in TimeScales :
        DoSampleOffsets(mp, ts)

SpecOffsets == InitOffsets /\ [][NextOffsets]_vars

(***************************************************************************)
(* The stsc query on its own                                               *)
(***************************************************************************)

MaxEntries == 3

MaxFirstChunk == 3

PerChunk == { 0, 1, 2 }

SampleToChunk ==
    [first_chunk : 1..MaxFirstChunk, samples_per_chunk : PerChunk,
     sample_description_id : {1}]

StscTables == UNION { [1..n -> SampleToChunk] : n \in 0..MaxEntries }

InitStsc ==
    /\ file = <<>>
    /\ len = 0
    /\ fpos = 0
    /\ moov_header = DefaultHeader
    /\ moov = <<>>
    /\ mpos = 0
    /\ overflow_checks = FALSE
    /\ \E tb \in StscTables :
         truth = [stsc |-> [no_of_entries |-> Len(tb), sample_to_chunk_table |-> tb]]
    /\ track = NoTrack
    /\ pool = NoPool
    /\ res = [op |-> "new", kind |-> "ok"]

\* Stsc::no_of_samples(chunk_index)
DoNoOfSamples(chunk_index) ==
    /\ res' = [op |-> "no_of_samples", kind |-> "ok", chunk_index |-> chunk_index,
               out |-> no_of_samples(truth.stsc, chunk_index)]
    /\ UNCHANGED <<file, len, fpos, moov_header, moov, mpos, overflow_checks, truth, track, pool>>

NextStsc == \E i \in 0..(MaxFirstChunk + 1) : DoNoOfSamples(i)

SpecStsc == InitStsc /\ [][NextStsc]_vars

(***************************************************************************)
(* FourCC on its own: a name compared with the FourCC of four stream bytes *)
(***************************************************************************)

\* four bytes that are no name of the enum: zero bytes, a GoPro name in
\* capitals, bytes above 127
OtherNames == { <<0, 0, 0, 0>>, <<71, 80, 77, 70>>, <<169, 120, 121, 122>>, <<255, 255, 255, 255>> }

\* the names compared: every variant of the enum and the others
FourCCNames ==
    { Ctts, Dinf, Dref, Edts, Elst, Ftyp, Free, Gmhd, Hdlr, Iods, Mdat, Mdhd,
      Mdia, Minf, Moov, Mvhd, Sdtp, Smhd, Stbl, Stco, Stsc, Stsd, Stss, Stsz,
      Stts, Tkhd, Tmcd, Trak, Tref, Udta, Vmhd, Co64 } \cup OtherNames

\* no file is open
InitIdle ==
    /\ file = <<>>
    /\ len = 0
    /\ fpos = 0
    /\ moov_header = DefaultHeader
    /\ moov = <<>>
    /\ mpos = 0
    /\ overflow_checks = FALSE
    /\ truth = [atoms |-> <<>>, wellformed |-> TRUE, tracks |-> <<>>]
    /\ track = NoTrack
    /\ pool = NoPool
    /\ res = [op |-> "new", kind |-> "ok"]

\* FourCC::from_str(name) == FourCC::from_u32(the u32 read from bytes), as
\* find_header compares them
DoFourCCEq(name, bytes) ==
    /\ res' = [op |-> "fourcc_eq", kind |-> "ok", name |-> name, bytes |-> bytes,
               equal |-> FromStr(name) = from_u32(BeU32(bytes))]
    /\ UNCHANGED <<file, len, fpos, moov_header, moov, mpos, overflow_checks, truth, track, pool>>

NextFourCC == \E name \in FourCCNames : \E bytes \in FourCCNames : DoFourCCEq(name, bytes)

SpecFourCC == InitIdle /\ [][NextFourCC]_vars

(***************************************************************************)
(* Atom::hdlr on its own: an hdlr atom with a given remainder after the    *)
(* fixed part                                                              *)
(***************************************************************************)

MaxName == 3

\* the first byte of a remainder: counts below, at and above the lengths of
\* the remainders, a letter and the largest byte
Counts == { 0, 1, 2, 3, 4, 71, 255 }

\* the bytes after the first: 0, a space, a letter, the largest byte
NameBytes == { 0, 32, 65, 255 }

RECURSIVE NameTails(_)
NameTails(n) ==
    IF n = 0 THEN { <<>> }
    ELSE Let(NameTails(n - 1), LAMBDA T : T \cup { <<b>> \o t : b \in NameBytes, t \in T })

\* "GoPro MET"
GoProMET == <<71, 111, 80, 114, 111, 32, 77, 69, 84>>

Remainders ==
    { <<>>, GoProMET, <<9>> \o GoProMET, <<8>> \o Tail(GoProMET) }
      \cup { <<c>> \o t : c \in Counts, t \in NameTails(MaxName - 1) }

\* Mp4::hdlr on a stream that is one hdlr atom: the fixed part and rest
DoHdlr(rest) ==
    /\ \E s \in { Leaf(Hdlr, Pad4 \o Mhlr \o Vide \o Zeros(12) \o rest).b } :
       \E r \in { FindTyped(s, 0, Hdlr, overflow_checks) } :
           res' = [op |-> "hdlr", kind |-> r.kind, err |-> r.err, rest |-> rest,
                   name |-> IF r.kind = "ok" THEN r.v.component_name ELSE <<>>]
    /\ UNCHANGED <<file, len, fpos, moov_header, moov, mpos, overflow_checks, truth, track, pool>>

NextHdlr == \E rest \in Remainders : DoHdlr(rest)

SpecHdlr == InitIdle /\ [][NextHdlr]_vars

\* C23: for every non-empty remainder of r bytes with first byte c, the name
\* is built from the c bytes that follow the first byte if c <= r, otherwise
\* from the whole remainder; an empty remainder fails with MissingHandlerName;
\* the remainder 47 6F 50 72 6F 20 4D 45 54 gives "GoPro MET".
C23_ComponentName ==
    res.op = "hdlr" =>
        LET r == Len(res.rest)
        IN  /\ r = 0 => res.kind = "err" /\ res.err = "MissingHandlerName"
            /\ r >= 1 =>
                 /\ res.kind = "ok"
                 /\ res.name = bytes2iso8859_1(IF res.rest[1] <= r
                                               THEN SubSeq(res.rest, 2, res.rest[1] + 1)
                                               ELSE res.rest)
            /\ res.rest = GoProMET => res.name = GoProMET

\* C23 for every remainder whose first byte is not its length; a remainder
\* whose first byte is its length aborts the program
C23_ButItsLength ==
    res.op = "hdlr" =>
        IF res.rest # <<>> /\ res.rest[1] = Len(res.rest) THEN res.kind = "panic"
        ELSE C23_ComponentName

(***************************************************************************)
(* The expansion of the chunk offsets on its own (src/src/track/offset.rs  *)
(* 131-160): one task for each chunk, run by the parallel iterator in any  *)
(* order and interleaving.  A task is [at, n, smp_sizes, k, delta,          *)
(* smp_off]: where it is in the closure and the closure's locals.          *)
(***************************************************************************)

Entry(first_chunk, samples_per_chunk) ==
    [first_chunk |-> first_chunk, samples_per_chunk |-> samples_per_chunk,
     sample_description_id |-> 1]

\* stsc tables: two samples in every chunk; one in the first chunk and two
\* in the others; one, two, one; no entry; a first entry for chunk 2
ParStsc ==
    { << Entry(1, 2) >>, << Entry(1, 1), Entry(2, 2) >>,
      << Entry(1, 1), Entry(2, 2), Entry(3, 1) >>, <<>>, << Entry(2, 1), Entry(3, 1) >> }

ParSizes == { <<5, 7, 11, 13>>, <<5, 7>> }

\* chunk offsets: increasing, and not
ParOffsets == { <<100, 200>>, <<100, 200, 300>>, <<300, 100, 200>> }

\* the tables the closure borrows and the chunk offsets it is mapped over
ParInputs ==
    { [stsc |-> [no_of_entries |-> Len(tb), sample_to_chunk_table |-> tb],
       sizes |-> sz, co |-> co] : tb \in ParStsc, sz \in ParSizes, co \in ParOffsets }

NewTask == [at |-> "new", n |-> 0, smp_sizes |-> <<>>, k |-> 0, delta |-> 0, smp_off |-> <<>>]

Running == pool.phase = "running"

\* into_par_iter().enumerate().map(..): a task for every chunk offset
DoExpand(in) ==
    /\ Alive
    /\ ~Running
    /\ pool' = [phase |-> "running", in |-> in,
                tasks |-> [i \in 1..Len(in.co) |-> NewTask], finished |-> <<>>]
    /\ res' = [op |-> "par_iter", kind |-> "ok"]
    /\ UNCHANGED <<file, len, fpos, moov_header, moov, mpos, overflow_checks, truth, track>>

\* the task of chunk i moves to the state t
Moves(i, t) ==
    /\ pool' = [pool EXCEPT !.tasks[i] = t]
    /\ UNCHANGED <<file, len, fpos, moov_header, moov, mpos, overflow_checks, truth, track, res>>

\* stsc.sample_count(i + 1) of the closure, i counted from 0: None panics
TaskCount(i) ==
    /\ Running
    /\ pool.tasks[i].at = "new"
    /\ \E n \in { no_of_samples(pool.in.stsc, i) } :
         Moves(i, IF n.some THEN [pool.tasks[i] EXCEPT !.at = "counted", !.n = n.v]
                  ELSE [pool.tasks[i] EXCEPT !.at = "panic"])

\* (&stsz.sizes()[i .. i + no_of_samples]).to_vec(): a range that ends after
\* the sizes panics
TaskSlice(i) ==
    /\ Running
    /\ pool.tasks[i].at = "counted"
    /\ \E t \in { pool.tasks[i] } :
         Moves(i, IF (i - 1) + t.n > Len(pool.in.sizes) THEN [t EXCEPT !.at = "panic"]
                  ELSE [t EXCEPT !.at = "summing",
                                 !.smp_sizes = Slice(pool.in.sizes, i - 1, (i - 1) + t.n)])

\* one step of the map over smp_sizes: offset = co + delta, delta += s
TaskStep(i) ==
    /\ Running
    /\ pool.tasks[i].at = "summing"
    /\ pool.tasks[i].k < pool.tasks[i].n
    /\ \E t \in { pool.tasks[i] } :
         Moves(i, [t EXCEPT !.smp_off = Append(@, pool.in.co[i] + t.delta),
                            !.delta = @ + t.smp_sizes[t.k + 1],
                            !.k = @ + 1])

\* Ok(smp_off): the task ends
TaskReturn(i) ==
    /\ Running
    /\ pool.tasks[i].at = "summing"
    /\ pool.tasks[i].k = pool.tasks[i].n
    /\ pool' = [pool EXCEPT !.tasks[i].at = "done", !.finished = Append(@, i)]
    /\ UNCHANGED <<file, len, fpos, moov_header, moov, mpos, overflow_checks, truth, track, res>>

\* the lists of the tasks one after the other in the order the tasks ended
Gather_in_completion_order(p) ==
    Flatten([j \in 1..Len(p.finished) |-> p.tasks[p.finished[j]].smp_off])

\* collect::<Result<Vec<Vec<u64>>, _>>()?.into_iter().flatten().collect():
\* the collect of an indexed parallel iterator keeps the items at their
\* indices
Gather(p) == Flatten([i \in 1..Len(p.tasks) |-> p.tasks[i].smp_off])

\* the parallel iterator is done: every task has ended, or one has panicked
\* and none is under way; a panic of a task is the panic of the caller
DoJoin ==
    /\ Running
    /\ \A i \in DOMAIN pool.tasks : pool.tasks[i].at \in { "new", "done", "panic" }
    /\ \/ \A i \in DOMAIN pool.tasks : pool.tasks[i].at = "done"
       \/ \E i \in DOMAIN pool.tasks : pool.tasks[i].at = "panic"
    /\ pool' = [pool EXCEPT !.phase = "joined"]
    /\ res' = IF \E i \in DOMAIN pool.tasks : pool.tasks[i].at = "panic"
              THEN [op |-> "expand", kind |-> "panic", out |-> <<>>,
                    in |-> pool.in, finished |-> pool.finished]
              ELSE [op |-> "expand", kind |-> "ok", out |-> Gather(pool),
                    in |-> pool.in, finished |-> pool.finished]
    /\ UNCHANGED <<file, len, fpos, moov_header, moov, mpos, overflow_checks, truth, track>>

\* the chunks of the tasks that run
Chunks == IF Running THEN DOMAIN pool.tasks ELSE {}

NextPar ==
    \/ \E in \in ParInputs : DoExpand(in)
    \/ \E i \in Chunks : TaskCount(i)
    \/ \E i \in Chunks : TaskSlice(i)
    \/ \E i \in Chunks : TaskStep(i)
    \/ \E i \in Chunks : TaskReturn(i)
    \/ DoJoin

SpecPar == InitIdle /\ [][NextPar]_vars

(***************************************************************************)
(* The format of a sample description (src/src/atom_types/stsd/format.rs). *)
(* A u32 is its two 16-bit halves, as for FourCC.                          *)
(***************************************************************************)

\* the u32 whose big-endian bytes are a, b, c, d
W(a, b, c, d) == [hi |-> a * 256 + b, lo |-> c * 256 + d]

\* the arms of VideoFormat::from_be_u32: the value and its variant
VideoArms ==
    {
      << W(97, 118, 99, 49), "Avc1" >>, << W(99, 118, 105, 100), "Cvid" >>,
      << W(100, 118, 99, 32), "Dvc" >>, << W(100, 118, 99, 112), "Dvcp" >>,
      << W(103, 105, 102, 32), "Gif" >>, << W(104, 50, 54, 51), "H263" >>,
      << W(104, 118, 99, 49), "Hvc1" >>, << W(106, 112, 101, 103), "Jpeg" >>,
      << W(107, 112, 99, 100), "Kpcd" >>, << W(109, 106, 112, 97), "Mjpa" >>,
      << W(109, 106, 112, 98), "Mjpb" >>, << W(109, 112, 52, 118), "Mp4v" >>,
      << W(112, 110, 103, 32), "Png" >>, << W(114, 97, 119, 32), "Raw" >>,
      << W(114, 108, 101, 32), "Rle" >>, << W(114, 112, 122, 97), "Rpza" >>,
      << W(115, 109, 99, 32), "Smc" >>, << W(83, 86, 81, 49), "Svq1" >>,
      << W(83, 86, 81, 51), "Svq3" >>, << W(116, 105, 102, 102), "Tiff" >>,
      << W(50, 118, 117, 32), "TwoVu" >>, << W(118, 50, 49, 48), "V210" >>,
      << W(118, 50, 49, 54), "V216" >>, << W(118, 51, 48, 56), "V308" >>,
      << W(118, 52, 48, 56), "V408" >>, << W(118, 52, 49, 48), "V410" >>,
      << W(121, 117, 118, 50), "Yuv2" >> }

\* the arms of AudioFormat::from_be_u32: the value and its variant
AudioArms ==
    {
      << W(0, 0, 0, 0), "NotSpecified" >>, << W(2, 0, 115, 109), "MsAdpcm" >>,
      << W(17, 0, 115, 109), "IntelMa" >>, << W(85, 0, 115, 109), "Mpeg1Layer3" >>,
      << W(109, 112, 52, 97), "Mp4a" >>, << W(78, 79, 78, 69), "None" >>,
      << W(114, 97, 119, 32), "Raw" >>, << W(116, 119, 111, 115), "Twos" >>,
      << W(115, 111, 119, 116), "Sowt" >>, << W(77, 65, 67, 51), "Mac3" >>,
      << W(77, 65, 67, 54), "Mac6" >>, << W(105, 109, 97, 52), "Ima4" >>,
      << W(102, 108, 51, 50), "Fl32" >>, << W(102, 108, 54, 52), "Fl64" >>,
      << W(105, 110, 50, 52), "In24" >>, << W(105, 110, 51, 50), "In32" >>,
      << W(117, 108, 97, 119), "Ulaw" >>, << W(97, 108, 97, 119), "Alaw" >>,
      << W(100, 118, 99, 97), "Dvca" >>, << W(81, 68, 77, 67), "Qdmc" >>,
      << W(81, 68, 77, 50), "Qdm2" >>, << W(81, 99, 108, 112), "Qclp" >>,
      << W(46, 109, 112, 51), "Mp3" >>, << W(97, 99, 45, 51), "Ac3" >> }

\* the match of from_be_u32 over the arms
MatchArms(arms, value) ==
    IF \E a \in arms : a[1] = value
    THEN (CHOOSE a \in arms : a[1] = value)[2]
    ELSE "Unknown"

VideoFormat_from_be_u32(value) == MatchArms(VideoArms, value)

AudioFormat_from_be_u32(value) == MatchArms(AudioArms, value)

\* chars_from_be_u32: the four bytes as characters
chars_from_be_u32(value) == ToBeBytes(value)

\* DataFormat::new
DataFormatNew(value) ==
    Let(<< AudioFormat_from_be_u32(value), VideoFormat_from_be_u32(value) >>, LAMBDA m :
      IF m[1] = "Unknown" /\ m[2] = "Unknown"
      THEN [kind |-> "Binary", v |-> chars_from_be_u32(value)]
      ELSE IF m[1] = "Unknown" THEN [kind |-> "Video", v |-> << m[2] >>]
      ELSE IF m[2] = "Unknown" THEN [kind |-> "Audio", v |-> << m[1] >>]
      ELSE [kind |-> "Binary", v |-> chars_from_be_u32(value)])

\* DataFormat::is_video, is_audio, is_binary
is_video(fmt) == fmt # [kind |-> "Video", v |-> << "Unknown" >>] /\ fmt.kind = "Video"

is_audio(fmt) == fmt # [kind |-> "Audio", v |-> << "Unknown" >>] /\ fmt.kind = "Audio"

is_binary(fmt) == fmt.kind = "Binary"

\* the tags read: the bytes of every arm's value, the same bytes in the other
\* order, and tags of no arm
FormatTags ==
    Let({ ToBeBytes(a[1]) : a \in VideoArms \cup AudioArms }, LAMBDA T :
      T \cup { << t[4], t[3], t[2], t[1] >> : t \in T }
        \cup { Tmcd, <<103, 112, 109, 100>>, <<114, 97, 119, 0>>, <<82, 65, 87, 32>>,
               <<97, 118, 99, 50>>, <<255, 255, 255, 255>> })

\* the data_format field of SampleDescription read from the four bytes tag:
\* a big-endian u32 mapped through DataFormat::new
DoDataFormat(tag) ==
    /\ \E fmt \in { DataFormatNew(BeU32(tag)) } :
         res' = [op |-> "data_format", kind |-> "ok", tag |-> tag, format |-> fmt,
                 is_video |-> is_video(fmt), is_audio |-> is_audio(fmt),
                 is_binary |-> is_binary(fmt)]
    /\ UNCHANGED <<file, len, fpos, moov_header, moov, mpos, overflow_checks, truth, track, pool>>

NextFormat == \E tag \in FormatTags : DoDataFormat(tag)

SpecFormat == InitIdle /\ [][NextFormat]_vars

\* C11: a FourCC built from a four-character name equals the FourCC decoded
\* from four stream bytes if and only if the bytes are the name's bytes, for
\* every name, those of the enum included.
C11_BytewiseEquality ==
    res.op = "fourcc_eq" => (res.equal <=> res.name = res.bytes)

\* C11 for every name but ctts
C11_ButCtts ==
    (res.op = "fourcc_eq" /\ res.name = Ctts /\ res.bytes = Ctts) \/ C11_BytewiseEquality

(***************************************************************************)
(* Properties of the reader                                                *)
(***************************************************************************)

HeaderRead == res.op = "next_header" /\ res.kind = "ok"

\* v is the reading of the eight big-endian bytes b
IsBE64(v, b) ==
    IF v < 0 THEN b[1] >= 128
    ELSE IF v >= Far
    THEN b[1] < 128 /\ ((\E i \in 1..5 : b[i] # 0) \/ b[6] * 65536 + b[7] * 256 + b[8] >= Far)
    ELSE b = Enc64(v)

\* C7: every successful next_header with seek to next leaves the stream
\* position at least 8 bytes beyond the position before the call.
C7_MonotonicAdvance ==
    (HeaderRead /\ res.seek_next) => res.post >= res.start + 8

\* C8: a header read sets size_64bit exactly when the 32-bit size field is 1;
\* then atom_size is the 8-byte big-endian value that follows and header_size
\* is 16 however small that value is, otherwise header_size is 8; data_offset
\* is offset + header_size and is the stream position right after the read.
C8_HeaderFields ==
    (HeaderRead /\ ~res.seek_next) =>
        LET s == stream(res.target)
            o == res.start
            h == res.hdr
            size32 == SubSeq(s, o + 1, o + 4)
        IN  /\ h.offset = o
            /\ h.size_64bit <=> size32 = <<0, 0, 0, 1>>
            /\ h.size_64bit =>
                 /\ IsBE64(h.atom_size, SubSeq(s, o + 9, o + 16))
                 /\ header_size(h) = 16
            /\ ~h.size_64bit =>
                 /\ h.atom_size >= Far \/ size32 = Enc32(h.atom_size)
                 /\ header_size(h) = 8
            /\ data_offset(h) = o + (IF size32 = <<0, 0, 0, 1>> THEN 16 ELSE 8)
            /\ pos(res.target) = data_offset(h)

\* a 64-bit header whose size value is smaller than the header itself
C8_Witness ==
    /\ HeaderRead /\ ~res.seek_next
    /\ res.hdr.size_64bit
    /\ res.hdr.atom_size = 8
    /\ pos(res.target) = res.start + 16

AtomsOf(t) ==
    IF t = "File" THEN { truth.atoms[i] : i \in DOMAIN truth.atoms }
    ELSE LET m == CHOOSE a \in { truth.atoms[i] : i \in DOMAIN truth.atoms } : a.name = Moov
             inner == { a \in { truth.atoms[i] : i \in DOMAIN truth.atoms } :
                          a.off >= m.off + m.hs /\ a.off < m.off + m.size }
         IN  { [a EXCEPT !.off = @ - (m.off + m.hs)] : a \in inner }

\* the atoms a walk of the target stream visits: those not inside a leaf
Walked(t) == { a \in AtomsOf(t) : ~a.inleaf }

\* the atoms named fourcc that a walk from start visits
Matches(t, start, fourcc) ==
    { a \in Walked(t) : a.off >= start /\ a.name = fourcc }

\* C10: find_header from an atom boundary of a well-formed stream returns the
\* first atom in walk order at or after the start whose FourCC is the one
\* asked for, the stream left at that atom's payload; with no such atom before
\* the stream's end it returns not-found.
C10_FindHeader ==
    (/\ res.op = "find_header"
     /\ truth.wellformed
     /\ \/ res.start = length(res.target)
        \/ \E a \in Walked(res.target) : a.off = res.start) =>
        LET M == Matches(res.target, res.start, res.fourcc)
        IN  IF M = {} THEN res.kind = "none"
            ELSE LET a == CHOOSE x \in M : \A y \in M : x.off <= y.off
                 IN  /\ res.kind = "ok"
                     /\ res.hdr.offset = a.off
                     /\ res.hdr.atom_size = a.size
                     /\ pos(res.target) = a.off + a.hs

\* C10 holds for every name but ctts
C10_FindHeaderButCtts ==
    (res.op = "find_header" /\ res.fourcc = Ctts) \/ C10_FindHeader

\* a header was returned by next_header or find_header
HeaderReturned ==
    res.op \in { "next_header", "find_header" } /\ res.kind = "ok"

\* the stream position the returned header was read at
ReadAt ==
    IF res.op = "next_header" THEN res.start
    ELSE pos(res.target) - header_size(res.hdr)

\* C12: a header returned from the moov stream for an atom inside moov has
\* the offset, data_offset and end of the header read for that atom through
\* the file stream: the absolute file offsets.
C12_AbsoluteOffset ==
    (/\ HeaderReturned
     /\ res.target = "Moov"
     /\ \E a \in AtomsOf("Moov") : a.off = ReadAt) =>
        \A f \in { Header(file, data_offset(moov_header) + ReadAt, overflow_checks) } :
            /\ f.kind = "ok"
            /\ f.hdr.name = res.hdr.name
            /\ res.hdr.offset = f.hdr.offset
            /\ data_offset(res.hdr) = data_offset(f.hdr)
            /\ end(res.hdr) = end(f.hdr)

\* C12 but for the offsets: the header from the moov stream is the header
\* from the file stream with offsets counted from the start of moov's payload
C12_RelativeOffset ==
    (/\ HeaderReturned
     /\ res.target = "Moov"
     /\ \E a \in AtomsOf("Moov") : a.off = ReadAt) =>
        \A f \in { Header(file, data_offset(moov_header) + ReadAt, overflow_checks) } :
            /\ f.kind = "ok"
            /\ f.hdr.name = res.hdr.name
            /\ f.hdr.atom_size = res.hdr.atom_size
            /\ res.hdr.offset + data_offset(moov_header) = f.hdr.offset

\* the step is a navigator operation on one stream
Navigates ==
    res'.op \in { "next_header", "find_header", "find_atom", "header_closest" }

\* the stream the step does not target keeps its position
OtherStreamKept ==
    IF res'.target = "File" THEN mpos' = mpos ELSE fpos' = fpos

\* C13: a navigator operation that targets one stream (next_header,
\* find_header, find_atom, the closest-atom lookup, with or without reset)
\* leaves the other stream's position as it was before the call.
C13_StreamsIndependent == [][Navigates => OtherStreamKept]_vars

\* C13 for the operations that do not reset: next_header, and find_header and
\* find_atom without reset
C13_WithoutReset ==
    [][(Navigates /\ res'.op # "header_closest"
          /\ (res'.op = "next_header" \/ ~res'.reset)) => OtherStreamKept]_vars

Synced == res.op \in { "sync_seek", "sync_pos" }

\* the absolute file offset inside moov's range, header included
InMoovRegion(p) == header_start(moov_header) <= p /\ p < end(moov_header)

\* the bytes of stream s from position p to q
BytesFrom(s, p, q) == SubSeq(s, p + 1, q)

\* C14: after a successful synchronisation to the absolute file offset p
\* inside the moov region the file stream is at p and the moov stream reads
\* the bytes the file stream reads: the file's bytes from p on.
C14_SyncedStreamsAgree ==
    (Synced /\ res.kind = "ok" /\ InMoovRegion(fpos)) =>
        /\ res.op = "sync_seek" => fpos = res.at
        /\ \A n \in 1..(end(moov_header) - fpos) :
             /\ mpos + n <= Len(moov)
             /\ BytesFrom(moov, mpos, mpos + n) = BytesFrom(file, fpos, fpos + n)

\* what the synchronisation does establish: the moov stream's position is
\* the file stream's less the offset of moov's header
C14_PositionsDifferByMoovOffset ==
    (Synced /\ res.kind = "ok") => fpos = mpos + moov_header.offset

\* the absolute file offset the synchronisation was asked for: the argument
\* of sync_seek, the file stream's position for sync_pos from the file, the
\* moov stream's position counted from moov's payload for sync_pos from moov
SyncOffset ==
    IF res.target = "File" THEN res.at ELSE data_offset(moov_header) + res.at

\* C15: a synchronisation at an offset outside the moov region, below its
\* start or beyond its end, fails with BoundsError, through sync_seek and
\* through sync_pos from either stream.
C15_SyncOutsideFails ==
    (Synced /\ (SyncOffset < header_start(moov_header) \/ SyncOffset > end(moov_header))) =>
        (res.kind = "err" /\ res.err = "BoundsError")

\* C15 for sync_seek, and for sync_pos from the file stream below moov's start
C15_WhereChecked ==
    (/\ Synced
     /\ res.target = "File"
     /\ \/ SyncOffset < header_start(moov_header)
        \/ res.op = "sync_seek" /\ SyncOffset > end(moov_header)) =>
        (res.kind = "err" /\ res.err = "BoundsError")

\* the atoms of the walk of stream t whose range [off, off + size) holds p
Holding(t, p) == { a \in Walked(t) : a.off <= p /\ p < a.off + a.size }

\* the innermost of them: the one that begins last
Innermost(t, p) == CHOOSE a \in Holding(t, p) : \A b \in Holding(t, p) : b.off <= a.off

\* the lookup returned the atom a of stream t
Returned(t, a) ==
    /\ res.kind = "ok"
    /\ ToStr(res.hdr.name) = a.name
    /\ res.hdr.atom_size = a.size
    /\ res.hdr.offset = a.off

\* C16: the closest-atom lookup for a given position p of a well-formed
\* stream, containers not ignored, succeeds and returns the innermost atom
\* whose range [offset, offset + atom_size) holds p: at the boundary of two
\* atoms the one that begins there.
C16_ClosestInnermost ==
    (/\ res.op = "header_closest"
     /\ truth.wellformed
     /\ res.given.some
     /\ ~res.ignore_container) =>
        Returned(res.target, Innermost(res.target, res.given.v))

\* C16 for the file stream, and for the moov stream where the innermost atom
\* is a leaf
C16_OnFileOrLeaf ==
    (/\ res.op = "header_closest"
     /\ truth.wellformed
     /\ res.given.some
     /\ ~res.ignore_container
     /\ \/ res.target = "File"
        \/ Innermost(res.target, res.given.v).name \notin CONTAINER) =>
        Returned(res.target, Innermost(res.target, res.given.v))

\* C17: the closest-atom lookup without a position returns the atom that
\* holds the position the target stream had before the call.
C17_ClosestAtCurrent ==
    (/\ res.op = "header_closest"
     /\ truth.wellformed
     /\ ~res.given.some
     /\ ~res.ignore_container
     /\ res.start < length(res.target)) =>
        Returned(res.target, Innermost(res.target, res.start))

\* what the lookup without a position returns: the atom that holds position 0
C17_ClosestAtZero ==
    (/\ res.op = "header_closest"
     /\ truth.wellformed
     /\ ~res.given.some
     /\ ~res.ignore_container
     /\ Innermost(res.target, 0).name \notin CONTAINER) =>
        Returned(res.target, Innermost(res.target, 0))

(***************************************************************************)
(* Properties of the stsc query                                            *)
(***************************************************************************)

\* the table's first_chunk values ascend from 1
Ascending(tb) ==
    /\ tb # <<>>
    /\ tb[1].first_chunk = 1
    /\ \A j \in 1..(Len(tb) - 1) : tb[j].first_chunk <= tb[j + 1].first_chunk

\* C5: over a table e_1..e_m with ascending first_chunk from 1, the query for
\* chunk i returns e_1.samples_per_chunk when m = 1; otherwise
\* e_j.samples_per_chunk for the j with e_j.first_chunk <= i <
\* e_{j+1}.first_chunk, and e_m.samples_per_chunk for every i >=
\* e_m.first_chunk.
C5_StscQuery ==
    (res.op = "no_of_samples" /\ Ascending(truth.stsc.sample_to_chunk_table)) =>
        LET tb == truth.stsc.sample_to_chunk_table
            m == Len(tb)
            i == res.chunk_index
        IN  /\ m = 1 => res.out = Some(tb[1].samples_per_chunk)
            /\ m > 1 =>
                 /\ \A j \in 1..(m - 1) :
                      (tb[j].first_chunk <= i /\ i < tb[j + 1].first_chunk) =>
                          res.out = Some(tb[j].samples_per_chunk)
                 /\ i >= tb[m].first_chunk => res.out = Some(tb[m].samples_per_chunk)

\* a table of three entries with different counts, queried inside its middle
\* range, answers with the middle entry
C5_Witness ==
    /\ res.op = "no_of_samples"
    /\ Ascending(truth.stsc.sample_to_chunk_table)
    /\ Len(truth.stsc.sample_to_chunk_table) = 3
    /\ truth.stsc.sample_to_chunk_table[1].first_chunk = 1
    /\ truth.stsc.sample_to_chunk_table[2].first_chunk = 2
    /\ truth.stsc.sample_to_chunk_table[3].first_chunk = 3
    /\ truth.stsc.sample_to_chunk_table[1].samples_per_chunk = 2
    /\ truth.stsc.sample_to_chunk_table[2].samples_per_chunk = 1
    /\ truth.stsc.sample_to_chunk_table[3].samples_per_chunk = 0
    /\ res.chunk_index = 2
    /\ res.out = Some(1)

(***************************************************************************)
(* Properties of the sample-offset reconstructor.  What a track's tables   *)
(* say is read off the tables the file was built from.                     *)
(***************************************************************************)

\* the number of trak atoms of the moov stream that begin before position p:
\* the track p lies in, 0 before the first
TrackAt(p) ==
    Cardinality({ a \in AtomsOf("Moov") : a.name = Trak /\ a.off < p })

\* the children of stbl that begin at or after p in the track p lies in
ChildrenFrom(p) ==
    LET later == { a \in AtomsOf("Moov") : a.name = Trak /\ a.off >= p }
        stop == IF later = {} THEN Len(moov)
                ELSE (CHOOSE a \in later : \A b \in later : a.off <= b.off).off
    IN  { a.name : a \in { x \in AtomsOf("Moov") : x.off >= p /\ x.off < stop } }
            \cap { Stsd, Stts, Stsc, Stsz, Stco, Co64 }

Reconstructed == res.op = "sample_offsets"

\* the call began in a track, before that track's stbl children
InTrack ==
    /\ Reconstructed
    /\ res.start \in Starts
    /\ TrackAt(res.start) >= 1

TrackOfCall == truth.tracks[TrackAt(res.start)]

\* the track holds each of the five children once
Whole(trk) ==
    /\ Len(trk.order) = 5
    /\ { trk.order[i] : i \in 1..5 } = { Stsd, Stts, Stsc, Stsz, Stco }

\* the entries of stsc ascend strictly from chunk 1
StscOk(trk) ==
    /\ trk.stsc # <<>>
    /\ trk.stsc[1][1] = 1
    /\ \A j \in 1..(Len(trk.stsc) - 1) : trk.stsc[j][1] < trk.stsc[j + 1][1]

\* the samples of chunk c (counted from 1) as the stsc table states them
PerChunkOf(trk, c) ==
    LET m == Len(trk.stsc)
        j == CHOOSE k \in 1..m : trk.stsc[k][1] <= c /\ (k = m \/ c < trk.stsc[k + 1][1])
    IN  trk.stsc[j][2]

\* the samples in chunks 1..c
SamplesThrough(trk, c) == SumSeq([k \in 1..c |-> PerChunkOf(trk, k)])

DurationsOf(trk) == Flatten([i \in DOMAIN trk.stts |-> Repeat(trk.stts[i][2], trk.stts[i][1])])

\* sum of stts run counts = number of sizes = samples in all chunks
Consistent(trk) ==
    /\ StscOk(trk)
    /\ Len(DurationsOf(trk)) = Len(trk.sizes)
    /\ SamplesThrough(trk, Len(trk.co)) = Len(trk.sizes)

\* the position of every sample with a flat cursor over the sizes
FlatPositions(trk) ==
    Flatten([c \in 1..Len(trk.co) |->
        [j \in 1..PerChunkOf(trk, c) |->
            trk.co[c] + SumSeq(SubSeq(trk.sizes, SamplesThrough(trk, c - 1) + 1,
                                      SamplesThrough(trk, c - 1) + j - 1))]])

\* C1: for a track with consistent tables, the sample with global index k in
\* chunk c has position chunk_offsets[c] plus the sizes of the samples before
\* it in that chunk, the sizes taken at the global sample indices.
C1_FlatCursor ==
    (InTrack /\ res.kind = "ok") =>
        (Consistent(TrackOfCall) =>
            /\ Len(res.out.offsets) = Len(FlatPositions(TrackOfCall))
            /\ \A k \in DOMAIN res.out.offsets :
                 res.out.offsets[k].position = FlatPositions(TrackOfCall)[k])

\* C2: when the number of durations expanded from stts differs from the
\* number of reconstructed samples, reconstruction fails with an error and
\* returns no table.
C2_SizeMismatchFails ==
    (/\ InTrack
     /\ Whole(TrackOfCall)
     /\ StscOk(TrackOfCall)
     /\ SamplesThrough(TrackOfCall, Len(TrackOfCall.co)) = Len(TrackOfCall.sizes)
     /\ Len(DurationsOf(TrackOfCall)) # Len(TrackOfCall.sizes)) =>
        (res.kind = "err" /\ res.out = NoOffsets)

\* the moov stream of the track written in the canonical order
CanonicalMoov(trk) ==
    LET f == TrackFile(<< [trk EXCEPT !.order = Canonical] >>)
    IN  SubSeq(f.b, 9, f.a[1].size)

\* C3: for every order of the children stsd, stts, stsc, stsz, stco of one
\* track, reconstruction succeeds and yields the same sample table and the
\* same retained stsd.
C3_OrderAgnostic ==
    (InTrack /\ Len(truth.tracks) = 1 /\ Whole(TrackOfCall)) =>
        \A r0 \in { SampleOffsetsNew(CanonicalMoov(TrackOfCall), res.start,
                                     overflow_checks, res.time_scale, TRUE) } :
            r0.kind = "ok" => (res.kind = "ok" /\ res.out = r0.out)

\* C3 for the orders that do not end with stsd
C3_UnlessStsdLast ==
    (InTrack /\ TrackOfCall.order[Len(TrackOfCall.order)] = Stsd) \/ C3_OrderAgnostic

\* the table has N entries, entry k with the k-th size and the k-th duration
TableMatches(trk) ==
    /\ Len(res.out.offsets) = Len(trk.sizes)
    /\ \A k \in DOMAIN res.out.offsets :
         /\ res.out.offsets[k].size = trk.sizes[k]
         /\ res.out.offsets[k].duration.ticks = DurationsOf(trk)[k]

\* C4: for a track whose tables agree on the number N of samples, the
\* reconstructed table has exactly N entries, entry k with the k-th size of
\* the size list and the k-th expanded stts duration.
C4_TableOfN ==
    (InTrack /\ Whole(TrackOfCall) /\ Consistent(TrackOfCall)) =>
        (res.kind = "ok" /\ TableMatches(TrackOfCall))

\* C4 for the calls that return a table
C4_WhenReturned ==
    (InTrack /\ Whole(TrackOfCall) /\ Consistent(TrackOfCall) /\ res.kind = "ok") =>
        TableMatches(TrackOfCall)

\* the four required tables, stco and co64 under one key
Required(names) == { IF n = Co64 THEN Stco ELSE n : n \in names \ { Stsd } }

\* C6: when the walk reads a trak header before the four required tables of
\* the current track are collected, it fails with SampleOffsetError, and no
\* table of a following track is used: a table that is returned is made of
\* the tables of the track the call began in.
C6_StopsAtNextTrak ==
    Reconstructed =>
        /\ (/\ Cardinality(Required(ChildrenFrom(res.start))) < 4
            /\ \E a \in AtomsOf("Moov") : a.name = Trak /\ a.off >= res.start) =>
               (res.kind = "err" /\ res.err = "SampleOffsetError" /\ res.out = NoOffsets)
        /\ (InTrack /\ res.kind = "ok") =>
               /\ res.out.stsd.v.flags = <<0, 0, TrackOfCall.id>>
               /\ \A k \in DOMAIN res.out.offsets :
                    res.out.offsets[k].size = TrackOfCall.sizes[k]

\* the call began in a first track that has three of the four tables, a
\* whole track follows, and the call failed at that track's trak header
C6_Witness ==
    /\ InTrack
    /\ TrackAt(res.start) = 1
    /\ Len(truth.tracks) = 2
    /\ Required(ChildrenFrom(res.start)) = { Stts, Stsc, Stsz }
    /\ Whole(truth.tracks[2])
    /\ res.kind = "err" /\ res.err = "SampleOffsetError"
    /\ \E a \in AtomsOf("Moov") : a.name = Trak /\ a.off + a.hs = res.post /\ a.off > res.start

(***************************************************************************)
(* Properties of the track view                                            *)
(***************************************************************************)

\* the identifier names the track by the field of the identifier's kind
Identifies(trk, identifier) ==
    CASE identifier.kind = "Id" -> << trk.id >> = identifier.v
      [] identifier.kind = "Name" -> trk.name = identifier.v
      [] identifier.kind = "SubType" -> trk.sub_type = identifier.v

\* the first track at or after position p of the moov stream that the
\* identifier names, 0 when there is none
FirstIdentified(p, identifier) ==
    LET hits == { i \in DOMAIN truth.tracks :
                    i > TrackAt(p) /\ Identifies(truth.tracks[i], identifier) }
    IN  IF hits = {} THEN 0 ELSE CHOOSE i \in hits : \A j \in hits : i <= j

\* the attributes are those of the headers of trk
AttributesOf(a, trk) ==
    /\ a.id = trk.id
    /\ a.name = trk.name
    /\ a.sub_type = trk.sub_type
    /\ a.time_scale = trk.time_scale
    /\ a.duration = trk.ticks
    /\ a.creation_time = trk.created
    /\ a.modification_time = trk.modified
    /\ a.width = << trk.width, 0 >>
    /\ a.height = << trk.height, 0 >>

\* the table has the sizes and the durations of the samples of trk
SizesAndDurationsOf(a, trk) ==
    /\ Len(a.offsets.offsets) = Len(trk.sizes)
    /\ \A k \in DOMAIN a.offsets.offsets :
         /\ a.offsets.offsets[k].size = trk.sizes[k]
         /\ a.offsets.offsets[k].duration =
                [ticks |-> DurationsOf(trk)[k],
                 time_scale |-> IF trk.time_scale = 0 THEN 1 ELSE trk.time_scale]

\* the table has the positions of the samples of trk
PositionsOf(a, trk) ==
    \A k \in DOMAIN a.offsets.offsets :
        a.offsets.offsets[k].position = FlatPositions(trk)[k]

TrackBuilt == res.op = "track_new"

\* C18: Track construction by identifier returns the attributes and the
\* sample table of the first track, in moov order from the starting
\* position, whose id, name or subtype equals the identifier of that kind,
\* and fails with NoSuchTrack when no track from there on does.
C18_TrackByIdentifier ==
    TrackBuilt =>
        \E i \in { FirstIdentified(res.start, res.identifier) } :
            IF i = 0 THEN res.kind = "err" /\ res.err = "NoSuchTrack"
            ELSE /\ res.kind = "ok"
                 /\ AttributesOf(res.attributes, truth.tracks[i])
                 /\ SizesAndDurationsOf(res.attributes, truth.tracks[i])
                 /\ PositionsOf(res.attributes, truth.tracks[i])

\* C18 without the positions of the samples, for the constructions that
\* begin with the file stream at the start of the file
C18_TrackSelected ==
    (TrackBuilt /\ res.file_start = 0) =>
        \E i \in { FirstIdentified(res.start, res.identifier) } :
            IF i = 0 THEN res.kind = "err" /\ res.err = "NoSuchTrack"
            ELSE /\ res.kind = "ok"
                 /\ AttributesOf(res.attributes, truth.tracks[i])
                 /\ SizesAndDurationsOf(res.attributes, truth.tracks[i])

\* next() gave an item: a pair of timestamps() or a sample of samples()
Yielded == res.op = "next" /\ res.kind = "ok"

\* the entries of the track's table
Entries == track.attributes.offsets.offsets

\* the ticks of the entries before entry k (counted from 0)
TicksBefore(k) == SumSeq([j \in 1..k |-> Entries[j].duration.ticks])

\* C19: in the sequences of timestamps() and samples() the first relative
\* time is 0, the relative time of item k is the sum of the durations of the
\* entries 0..k-1 of the table (the durations of a track are ticks of one
\* time scale, and exact), and the relative time of the item after an item is
\* that item's relative time plus its duration.
C19_RelativeTimes ==
    /\ [](Yielded =>
            /\ res.k = 0 => res.relative_time = ZERO
            /\ res.relative_time =
                   seconds_f64([ticks |-> TicksBefore(res.k),
                                time_scale |-> Entries[res.k + 1].duration.time_scale])
            /\ res.sample_duration = seconds_f64(Entries[res.k + 1].duration))
    /\ [][(Yielded /\ Yielded' /\ res'.iter = res.iter /\ res'.k = res.k + 1) =>
              res'.relative_time = AddDuration(res.relative_time, res.sample_duration)]_vars

\* the fourth sample of a track of time scale 4 whose first three samples
\* last 10 ticks each: 7.5 seconds after the start
C19_Witness ==
    /\ Yielded
    /\ res.iter = "samples"
    /\ res.k = 3
    /\ track.attributes.time_scale = 4
    /\ res.relative_time = [seconds |-> 7, nanoseconds |-> 500000000]
    /\ res.sample_duration = [seconds |-> 5, nanoseconds |-> 0]

\* next() was called on the iterator of samples()
SampleAsked == res.op = "next" /\ res.iter = "samples"

\* the bytes of entry e lie inside the file
InsideFile(e) == e.position >= 0 /\ e.position + e.size <= len

\* C20: item k of samples(), when the byte range of entry k of the table
\* lies inside the file, is a sample whose bytes are that range of the file,
\* size bytes, whatever the position of the file stream was before; there is
\* one item for every entry of the table, in its order, and none after the
\* last.
C20_SampleBytes ==
    SampleAsked =>
        /\ res.kind = "end" <=> res.k = Len(Entries)
        /\ track.k = IF res.kind = "end" THEN res.k ELSE res.k + 1
        /\ res.kind # "end" =>
             \E e \in { Entries[res.k + 1] } :
                 InsideFile(e) =>
                     /\ res.kind = "ok"
                     /\ res.bytes = BytesFrom(file, e.position, e.position + e.size)
                     /\ Len(res.bytes) = e.size

\* the second sample of a track read with the file stream at the end of the
\* file, where the first sample ends: 11 bytes from 64
C20_Witness ==
    /\ SampleAsked
    /\ res.kind = "ok"
    /\ res.k = 1
    /\ res.before = len
    /\ Entries[2].position = 64
    /\ res.bytes = BytesFrom(file, 64, 75)
    /\ fpos = 75

\* a sample inside the file read after one that ends after the end of the
\* file and one that begins after it
C20_WitnessAfterFailures ==
    /\ SampleAsked
    /\ res.kind = "ok"
    /\ res.k = 3
    /\ ~InsideFile(Entries[2]) /\ ~InsideFile(Entries[3])
    /\ res.before > len
    /\ Len(res.bytes) = 13

(***************************************************************************)
(* Properties of the facade's enumerations                                 *)
(***************************************************************************)

Collected == res.op = "collect"

\* the atoms of the file that lie in no other atom
TopLevel ==
    { a \in AtomsOf("File") :
        \A b \in AtomsOf("File") : ~(b.off < a.off /\ a.off < b.off + b.size) }

\* the headers hs are those of the atoms of A, each once, in increasing
\* order of file offset
ExactlyInOrder(hs, A) ==
    /\ \A i \in 1..(Len(hs) - 1) : hs[i].offset < hs[i + 1].offset
    /\ { [off |-> hs[i].offset, size |-> hs[i].atom_size, hs |-> header_size(hs[i])] :
            i \in DOMAIN hs }
         = { [off |-> a.off, size |-> a.size, hs |-> a.hs] : a \in A }

\* the headers hs are those of successive reads with seek to next from
\* position p of the file, and the read after the last one fails at position q
ReadsUntilFailure(hs, p, q) ==
    /\ hs # <<>> => hs[1].offset = p
    /\ \A i \in DOMAIN hs :
         \E r \in { NextHeader(file, hs[i].offset, TRUE, overflow_checks) } :
             /\ r.kind = "ok"
             /\ r.hdr = hs[i]
             /\ i < Len(hs) => r.pos = hs[i + 1].offset
             /\ i = Len(hs) =>
                  \E e \in { NextHeader(file, r.pos, TRUE, overflow_checks) } :
                      e.kind = "err" /\ e.pos = q
    /\ hs = <<>> =>
         \E e \in { NextHeader(file, p, TRUE, overflow_checks) } :
             e.kind = "err" /\ e.pos = q

\* C21 (amended): an iteration of the facade that ends yields the headers of
\* successive header reads from the position it began at and ends, with no
\* error reported, at the first read that fails; on a well-formed file from
\* position 0 it ends and yields exactly the headers of the main tree's atoms,
\* the top-level atoms and the atoms nested in containers (not those in the
\* payload of a leaf), each once, in increasing file-offset order.
C21_MainTreeAtoms ==
    /\ (Collected /\ res.kind = "ok") =>
           ReadsUntilFailure(res.out, res.start, res.post)
    /\ (Collected /\ truth.wellformed /\ res.start = 0) =>
           /\ res.kind = "ok"
           /\ res.err = ""
           /\ ExactlyInOrder(res.out, Walked("File"))
           /\ res.post = len

\* the iteration of a well-formed file from position 0 yields mvhd, which
\* lies in moov, and ends at the end of the file
C21_Witness ==
    /\ Collected /\ truth.wellformed /\ res.start = 0
    /\ res.kind = "ok"
    /\ Len(res.out) >= 5
    /\ \E i \in DOMAIN res.out :
         /\ ToStr(res.out[i].name) = Mvhd
         /\ \A a \in TopLevel : a.off # res.out[i].offset
    /\ fpos = len

\* C21 as stated: iterating the facade from position 0 yields exactly the
\* top-level atom headers (the atoms not nested inside any other atom), each
\* once, in increasing file-offset order, and ends with no error reported.
C21_TopLevelOnly ==
    (Collected /\ res.start = 0) =>
        /\ res.kind = "ok"
        /\ ExactlyInOrder(res.out, TopLevel)

HeadersListed == res.op = "headers" /\ truth.wellformed /\ res.start = 0

\* C22: on a well-formed file, both from position 0, headers() returns all
\* the headers that collecting the facade's iterator returns: the two lists
\* have the same length.
C22_SameLength ==
    HeadersListed =>
        \E c \in { Collect(file, 0, overflow_checks) } :
            /\ res.kind = "ok" /\ c.kind = "ok"
            /\ Len(res.out) = Len(c.out)

\* what headers() returns on a well-formed file from position 0: the headers
\* the iterator yields but the last
C22_AllButLast ==
    HeadersListed =>
        \E c \in { Collect(file, 0, overflow_checks) } :
            /\ res.kind = "ok" /\ c.kind = "ok"
            /\ c.out # <<>>
            /\ res.out = SubSeq(c.out, 1, Len(c.out) - 1)
            /\ fpos = len

UserDataAsked == res.op = "find_user_data" /\ truth.wellformed

\* the udta atoms of the moov stream
UserData == { a \in Walked("Moov") : a.name = Udta }

\* the atoms named fourcc in the payload of the udta atom u
ChildrenOf(u, fourcc) ==
    { a \in AtomsOf("Moov") :
        a.name = fourcc /\ u.off + u.hs <= a.off /\ a.off + a.size <= u.off + u.size }

\* C24: find_user_data(fourcc) returns only an atom whose byte range lies in
\* the payload of udta; when udta has no child with that FourCC it fails with
\* NoSuchAtom instead of returning an atom of that name elsewhere in moov.
C24_WithinUserData ==
    UserDataAsked =>
        /\ res.kind = "ok" =>
             \E u \in UserData : \E a \in ChildrenOf(u, res.fourcc) :
                 res.hdr.offset = a.off /\ res.hdr.atom_size = a.size
        /\ (\A u \in UserData : ChildrenOf(u, res.fourcc) = {}) =>
             res.kind = "err" /\ res.err = "NoSuchAtom"

\* find_user_data looks for the atom from the payload of the first udta on
\* to the end of moov: it returns the first atom of that name the walk
\* visits there, NoSuchAtom when there is none or moov has no udta
C24_FromUserDataOn ==
    UserDataAsked =>
        IF UserData = {} THEN res.kind = "err" /\ res.err = "NoSuchAtom"
        ELSE LET u == CHOOSE x \in UserData : \A y \in UserData : x.off <= y.off
                 M == { a \in AtomsOf("Moov") :
                          /\ a.name = res.fourcc
                          /\ a.off >= u.off + u.hs
                          /\ a \in Walked("Moov") \/ a \in ChildrenOf(u, res.fourcc) }
             IN  IF M = {} THEN res.kind = "err" /\ res.err = "NoSuchAtom"
                 ELSE \E a \in M :
                        /\ \A b \in M : a.off <= b.off
                        /\ res.kind = "ok"
                        /\ res.hdr.offset = a.off /\ res.hdr.atom_size = a.size
                        /\ mpos = a.off + a.hs

(***************************************************************************)
(* Properties of the parallel expansion                                    *)
(***************************************************************************)

Expanded == res.op = "expand"

\* the closure applied to the chunks one after the other, left to right
SequentialExpansion(in) ==
    Let([i \in 1..Len(in.co) |-> ChunkOffsets(in.stsc, in.sizes, i - 1, in.co[i])],
        LAMBDA chunks :
          IF \E i \in DOMAIN chunks : ~chunks[i].some
          THEN [kind |-> "panic", out |-> <<>>]
          ELSE [kind |-> "ok", out |-> Flatten([i \in DOMAIN chunks |-> chunks[i].v])])

\* C25: under every scheduling and interleaving of the per-chunk tasks the
\* parallel expansion gives what the sequential left-to-right expansion
\* gives, the positions in chunk order and within a chunk in sample order,
\* and the inputs are not modified during the expansion.
C25_AsSequential ==
    /\ [](Expanded =>
            \E seq \in { SequentialExpansion(res.in) } :
                res.kind = seq.kind /\ res.out = seq.out)
    /\ [][Running => pool'.in = pool.in]_vars

\* three chunks whose tasks ended in another order than that of the chunks
C25_Witness ==
    /\ Expanded
    /\ res.kind = "ok"
    /\ res.finished = <<3, 1, 2>>
    /\ res.out = <<300, 100, 107, 200, 211>>

(***************************************************************************)
(* Properties of the format of a sample description                        *)
(***************************************************************************)

FormatRead == res.op = "data_format"

\* the tags that an arm of VideoFormat::from_be_u32 matches, and those of
\* AudioFormat::from_be_u32
VideoTags == { ToBeBytes(a[1]) : a \in VideoArms }

AudioTags == { ToBeBytes(a[1]) : a \in AudioArms }

\* "avc1", "hvc1", "mp4v", "jpeg", "raw "
VideoNamed ==
    { <<97, 118, 99, 49>>, <<104, 118, 99, 49>>, <<109, 112, 52, 118>>,
      <<106, 112, 101, 103>>, <<114, 97, 119, 32>> }

\* "mp4a", "ac-3", "sowt", "twos", "ulaw"
AudioNamed ==
    { <<109, 112, 52, 97>>, <<97, 99, 45, 51>>, <<115, 111, 119, 116>>,
      <<116, 119, 111, 115>>, <<117, 108, 97, 119>> }

\* C26: every tag of the Video set (avc1, hvc1, mp4v, jpeg, "raw ") is
\* classified as Video, every tag of the Audio set (mp4a, ac-3, sowt, twos,
\* ulaw) as Audio, and every tag in neither set as Binary.
C26_ClosedTaxonomy ==
    FormatRead =>
        /\ res.tag \in VideoNamed => res.format.kind = "Video" /\ res.is_video
        /\ res.tag \in AudioNamed => res.format.kind = "Audio" /\ res.is_audio
        /\ res.tag \notin VideoTags \cup AudioTags =>
             res.format.kind = "Binary" /\ res.is_binary

\* the classification as it is: "raw " is a tag of both sets and the only
\* one, and it is classified as Binary with every tag of neither set; the
\* other tags of a set have that set's kind
C26_ButRaw ==
    /\ VideoNamed \subseteq VideoTags /\ AudioNamed \subseteq AudioTags
    /\ VideoTags \cap AudioTags = { <<114, 97, 119, 32>> }
    /\ FormatRead =>
         /\ res.tag \in VideoTags \ AudioTags <=> res.format.kind = "Video"
         /\ res.tag \in AudioTags \ VideoTags <=> res.format.kind = "Audio"
         /\ res.format.kind = "Binary" => res.format.v = res.tag
         /\ res.is_video <=> res.format.kind = "Video"
         /\ res.is_audio <=> res.format.kind = "Audio"
         /\ res.is_binary <=> res.format.kind = "Binary"

(***************************************************************************)
(* Termination of the walks                                                *)
(***************************************************************************)

Walks == res.op \in { "find_header", "collect", "headers" }

\* C27: for every stream content and every start position find_header,
\* headers() and the iterator end, with a match, not-found or an error, and
\* never read a header at the same offset twice.
C27_Terminates == Walks => res.kind # "diverges"

\* on a well-formed stream, from every start position of the model, the
\* walks end
C27_OnWellFormed == (Walks /\ truth.wellformed) => res.kind # "diverges"

\* a walk of the file that came back to an offset it had read a header at
C27_Revisited ==
    /\ Walks /\ res.kind = "diverges"
    /\ res.target = "File"
    /\ res.post >= res.start

(***************************************************************************)
(* Sizes smaller than the header                                           *)
(***************************************************************************)

\* the header of a leaf whose atom_size is smaller than its header_size
ShortLeaf(h) == ~is_container(h) /\ SubUnderflows(h.atom_size, header_size(h))

\* the size the bytes at p of stream s declare is smaller than the header
\* they are read as, and the name is no container's
ShortLeafAt(s, p) ==
    /\ p + 8 <= Len(s)
    /\ SubSeq(s, p + 5, p + 8) \notin CONTAINER
    /\ \/ SubSeq(s, p + 1, p + 3) = <<0, 0, 0>> /\ s[p + 4] \in 2..7
       \/ /\ SubSeq(s, p + 1, p + 4) = <<0, 0, 0, 1>>
          /\ p + 16 <= Len(s)
          /\ SubSeq(s, p + 9, p + 15) = <<0, 0, 0, 0, 0, 0, 0>> /\ s[p + 16] \in 1..15

\* C28: a header read never returns the header of a leaf whose atom_size is
\* smaller than its header_size (a 32-bit size 2..7, a 64-bit size 1..15):
\* such input is reported as an error, and atom_size - header_size, the skip
\* distance and data_size, is never a wrapped-around value.
C28_NoShortLeaf ==
    res.op = "next_header" =>
        /\ res.kind = "ok" =>
             /\ ~ShortLeaf(res.hdr)
             /\ res.hdr.next >= 0 \/ res.hdr.atom_size < 0
             /\ data_size(res.hdr) >= 0 \/ res.hdr.atom_size < 0 \/ is_container(res.hdr)
        /\ ShortLeafAt(stream(res.target), res.start) => res.kind = "err"

\* what the header read does with such input: with overflow checks the
\* program aborts, without them the header is returned with the wrapped
\* difference as next and as data_size; every other leaf header returned has
\* atom_size - header_size as both
C28_WrapsOrAborts ==
    res.op = "next_header" =>
        /\ ShortLeafAt(stream(res.target), res.start) =>
             IF overflow_checks THEN res.kind = "panic"
             ELSE /\ res.kind = "ok"
                  /\ ShortLeaf(res.hdr)
                  /\ res.hdr.next = res.hdr.atom_size - header_size(res.hdr)
                  /\ res.hdr.next < 0
                  /\ data_size(res.hdr) = res.hdr.next
        /\ (res.kind = "ok" /\ ShortLeaf(res.hdr)) => ShortLeafAt(stream(res.target), res.start)
        /\ res.kind = "panic" => ShortLeafAt(stream(res.target), res.start)

\* C29: sample-table reconstruction never aborts the program: for every
\* decodable combination of stts, stsc, stsz and chunk-offset tables, an
\* stsc table that is empty or starts after chunk 1 and a size list with
\* fewer entries than the chunks declare among them, it returns a table or
\* an error value.
C29_NeverAborts == Reconstructed => res.kind \in { "ok", "err" }

\* some chunk's slice of the sizes, taken from the chunk's index, ends after
\* the size list
SliceEndsAfter(trk) ==
    \E c \in 1..Len(trk.co) : (c - 1) + PerChunkOf(trk, c) > Len(trk.sizes)

\* when reconstruction aborts: the call has the four tables of a track with
\* a chunk, and the stsc table is empty, or starts after chunk 1, or a chunk's
\* slice ends after the size list; it aborts for each of the three
C29_AbortsWhen ==
    (InTrack /\ Whole(TrackOfCall)) =>
        \E trk \in { TrackOfCall } :
            res.kind = "panic" <=>
                /\ trk.co # <<>>
                /\ \/ trk.stsc = <<>>
                   \/ trk.stsc[1][1] > 1
                   \/ SliceEndsAfter(trk)

\* C30: the outcome of Track::new without reset depends on the moov stream,
\* its content and position, and not on the position of the file stream:
\* wherever earlier operations left the file stream, the result is the one
\* the construction gives with the file stream at offset 0.
C30_FilePositionIrrelevant ==
    (res.op = "track_new" /\ ~res.reset) =>
        \E r0 \in { TrackNew(file, 0, moov, res.start, res.identifier, FALSE,
                             overflow_checks) } :
            /\ res.kind = r0.kind
            /\ res.err = r0.err
            /\ res.attributes = r0.attributes

\* no stsd atom outside the model is read
StsdModelled == res.kind # "unmodelled"

Next ==
    \/ \E t \in Targets : \E p \in SeekPositions(t) : Seek(t, p)
    \/ \E t \in Targets : \E b \in BOOLEAN : DoNextHeader(t, b)
    \/ \E t \in Targets : \E n \in SearchNames : \E b \in BOOLEAN : DoFindHeader(t, n, b)
    \/ \E t \in Targets : \E n \in SearchNames : \E b \in BOOLEAN : DoFindAtom(t, n, b)

Spec == Init /\ [][Next]_vars

====
